---- MODULE Spec2Model ----
(***************************************************************************)
(* A model of the run-analysis core of fit-check: the bonk detector        *)
(* (fitness/analysis/bonk.py) and the lap segment builder                  *)
(* (fitness/analysis/segments.py).                                         *)
(*                                                                         *)
(* Numbers.  The Python code computes in floats; the model computes the    *)
(* same quantities exactly, as integers or as ratios of integers:          *)
(*   - an optional value is <<>> (Python None) or <<v>>;                   *)
(*   - a threshold given in the code as a fraction (0.20) is held in       *)
(*     percent (20) and every comparison is cross-multiplied;              *)
(*   - a mean is held as <<sum, count>>, a grade as <<rise, run>>;         *)
(*   - a rounded field of BonkEvent is held in its last kept digit         *)
(*     (pace_drop_pct in thousandths, heart rates in tenths).              *)
(* Paces are even integers, so that the median of an even number of them   *)
(* (the mean of the two middle ones) is an integer.                        *)
(***************************************************************************)
EXTENDS Integers, Sequences, FiniteSets, TLC

VARIABLES
    pc,              \* "input" before the call, then the name of the call made
    points,          \* the timeseries handed to the detector
    params,          \* the detector's tunables (keyword arguments of detect_bonk)
    laps,            \* the LapSegments handed to the segment-aware detector
    raw_candidates,  \* detect_bonk's raw_candidates list
    events,          \* the BonkEvents returned
    splits,          \* the ActivitySplit rows handed to build_lap_segments
    segments,        \* the LapSegments build_lap_segments returned
    active,          \* is_active() of each returned LapSegment
    max_hr,          \* the athlete's maximum heart rate handed to the segment builders
    mile_segments,   \* the RunSegments build_mile_segments returned
    drift_params,    \* the tunables of detect_cardiac_drift
    drift,           \* what detect_cardiac_drift returned
    typed_splits,    \* the split dicts handed to detect_galloway_segments
    min_walk_segments, \* its min_walk_segments argument
    galloway,        \* the GallowaySegments returned
    records,         \* the FIT file: whether it exists and decodes, and its 'record' messages
    datapoints,      \* what parse_fit_file returned or raised
    db,              \* the database: the rows of its four tables and the ids given out
    calls,           \* the calls of sync_activity: where each is and what it holds
    loop             \* a loop of an analysis call in progress: its local variables

\* the inputs and results of the mile builder, the drift detector, the
\* Galloway detector and the FIT parser, the sync service and the loops
other_vars == <<max_hr, mile_segments, drift_params, drift, typed_splits,
                min_walk_segments, galloway, records, datapoints, db, calls, loop>>

bonk_vars == <<params, laps, raw_candidates, events>>
lap_vars == <<splits, segments, active>>
drift_vars == <<drift_params, drift>>
galloway_vars == <<typed_splits, min_walk_segments, galloway>>
fit_vars == <<records, datapoints>>
sync_vars == <<db, calls>>

vars == <<pc, points, params, laps, raw_candidates, events, splits, segments, active,
          max_hr, mile_segments, drift_params, drift, typed_splits,
          min_walk_segments, galloway, records, datapoints, db, calls, loop>>

----------------------------------------------------------------------------
(* Optional values and small list helpers *)

None == <<>>
Some(v) == <<v>>
Val(o) == o[1]

\* A result that is an exception raised
Raised(exc) == Some([raised |-> exc])

RECURSIVE SumSeq(_)
SumSeq(s) == IF s = <<>> THEN 0 ELSE Head(s) + SumSeq(Tail(s))

RECURSIVE InsertSorted(_, _)
InsertSorted(x, s) ==
    IF s = <<>> THEN <<x>>
    ELSE IF x < Head(s) THEN <<x>> \o s
    ELSE <<Head(s)>> \o InsertSorted(x, Tail(s))

RECURSIVE SortedSeq(_)
SortedSeq(s) ==
    IF s = <<>> THEN <<>>
    ELSE InsertSorted(s[Len(s)], SortedSeq(SubSeq(s, 1, Len(s) - 1)))

\* statistics.median: the middle value, or the mean of the two middle values
median(s) ==
    LET srt == SortedSeq(s)
        n == Len(s)
    IN  IF n % 2 = 1 THEN srt[(n + 1) \div 2]
        ELSE (srt[n \div 2] + srt[n \div 2 + 1]) \div 2

\* round(n/d, k) held in units of the k-th digit: n is already scaled by 10^k.
\* Python rounds an exact tie to the even neighbour.
RoundRatio(n, d) ==
    LET q == n \div d
        r == n % d
    IN  IF 2 * r < d THEN q
        ELSE IF 2 * r > d THEN q + 1
        ELSE IF q % 2 = 0 THEN q ELSE q + 1

Abs(x) == IF x < 0 THEN -x ELSE x

MAX_HR_DEFAULT == 185

\* detect_cardiac_drift's keyword defaults (the threshold in percent)
DefaultDriftParams ==
    [ warmup_minutes |-> 15,
      window_minutes |-> 5,
      pace_stability_threshold |-> 10,   \* 0.10
      drift_threshold_bpm |-> 8,
      min_steady_windows |-> 4 ]

\* detect_galloway_segments' default min_walk_segments
DefaultMinWalkSegments == 3

\* A FIT file with no 'record' message, not parsed
NoFitInputs == records = [status |-> "ok", messages |-> <<>>] /\ datapoints = <<>>

\* A database with no row, and no call of sync_activity
NoSyncInputs ==
    /\ db = [activities |-> {}, datapoints |-> {}, splits |-> {}, sync_logs |-> {}]
    /\ calls = <<>>

\* No loop in progress
NoLoop == loop = <<>>

\* A run in which the mile builder, the drift detector, the Galloway detector
\* and the FIT parser are not called
NoOtherInputs ==
    /\ max_hr = MAX_HR_DEFAULT
    /\ mile_segments = <<>>
    /\ drift_params = DefaultDriftParams
    /\ drift = <<>>
    /\ typed_splits = <<>>
    /\ min_walk_segments = DefaultMinWalkSegments
    /\ galloway = <<>>
    /\ NoFitInputs
    /\ NoSyncInputs
    /\ NoLoop

\* sorted(pts, key=elapsed_seconds): stable
RECURSIVE InsertByElapsed(_, _)
InsertByElapsed(p, s) ==
    IF s = <<>> THEN <<p>>
    ELSE IF p.elapsed_seconds < s[Len(s)].elapsed_seconds
         THEN InsertByElapsed(p, SubSeq(s, 1, Len(s) - 1)) \o <<s[Len(s)]>>
         ELSE s \o <<p>>

RECURSIVE SortByElapsed(_)
SortByElapsed(s) ==
    IF s = <<>> THEN <<>>
    ELSE InsertByElapsed(s[Len(s)], SortByElapsed(SubSeq(s, 1, Len(s) - 1)))

----------------------------------------------------------------------------
(* bonk.py *)

CandidateStep == 15     \* "t % 15 == 0"
HrWindowSeconds == 60   \* _mean_hr_window(points, t, 60, ...)
GradeWindowSeconds == 60 \* default window_seconds of _elevation_grade_around
MinWindowPoints == 3    \* "len(window_pts) < 3"

HasPace(p) == p.pace_seconds_per_km /= None /\ Val(p.pace_seconds_per_km) > 0

PaceOf(p) == Val(p.pace_seconds_per_km)
HrOf(p) == Val(p.heart_rate)

SeqMap(Op(_), s) == [i \in 1..Len(s) |-> Op(s[i])]

\* _rolling_median_pace: None, or the median pace of the window
rolling_median_pace(pts, elapsed, window_seconds, direction) ==
    LET window_pts ==
            IF direction = "before"
            THEN SelectSeq(pts, LAMBDA p:
                    /\ elapsed - window_seconds <= p.elapsed_seconds
                    /\ p.elapsed_seconds < elapsed
                    /\ HasPace(p))
            ELSE SelectSeq(pts, LAMBDA p:
                    /\ elapsed <= p.elapsed_seconds
                    /\ p.elapsed_seconds < elapsed + window_seconds
                    /\ HasPace(p))
    IN  IF Len(window_pts) < MinWindowPoints THEN None
        ELSE Some(median(SeqMap(PaceOf, window_pts)))

\* _mean_hr_window: None, or the mean as <<sum, count>>
mean_hr_window(pts, elapsed, window_seconds, direction) ==
    LET window_pts ==
            IF direction = "before"
            THEN SelectSeq(pts, LAMBDA p:
                    /\ elapsed - window_seconds <= p.elapsed_seconds
                    /\ p.elapsed_seconds < elapsed
                    /\ p.heart_rate /= None)
            ELSE SelectSeq(pts, LAMBDA p:
                    /\ elapsed <= p.elapsed_seconds
                    /\ p.elapsed_seconds < elapsed + window_seconds
                    /\ p.heart_rate /= None)
    IN  IF window_pts = <<>> THEN None
        ELSE Some(<<SumSeq(SeqMap(HrOf, window_pts)), Len(window_pts)>>)

\* _elevation_grade_around: the grade as <<rise, run>>, <<0, 1>> for 0.0
elevation_grade_around(pts, elapsed, window_seconds) ==
    LET window_pts == SelectSeq(pts, LAMBDA p:
                    /\ elapsed <= p.elapsed_seconds
                    /\ p.elapsed_seconds <= elapsed + 2 * window_seconds
                    /\ p.elevation_meters /= None
                    /\ p.distance_meters /= None)
        srt == SortByElapsed(window_pts)
        n == Len(srt)
        elev_change == Val(srt[n].elevation_meters) - Val(srt[1].elevation_meters)
        dist_change == Val(srt[n].distance_meters) - Val(srt[1].distance_meters)
    IN  IF Len(window_pts) < 2 THEN <<0, 1>>
        ELSE IF dist_change <= 0 THEN <<0, 1>>
        ELSE <<elev_change, dist_change>>

\* "pace_drop < pace_drop_threshold" for pace_drop = (post - pre) / pre, pre > 0
PaceDropBelow(pre_pace, post_pace, threshold_pct) ==
    (post_pace - pre_pace) * 100 < threshold_pct * pre_pace

\* "hr_spike < hr_spike_threshold" for hr_spike = post_hr - pre_hr (two means)
HrSpikeBelow(pre_hr, post_hr, threshold) ==
    post_hr[1] * pre_hr[2] - pre_hr[1] * post_hr[2] < threshold * pre_hr[2] * post_hr[2]

\* "abs(grade) >= hill_grade_threshold"
OnHill(grade, threshold_pct) ==
    Abs(grade[1]) * 100 >= threshold_pct * grade[2]

\* EvalCandidate without the hill exclusion
EvalCandidateNoHill(pts, t, prm) ==
    LET pre_pace == rolling_median_pace(pts, t, prm.pre_window_seconds, "before")
        post_pace == rolling_median_pace(pts, t, prm.post_window_seconds, "after")
        pre_hr == mean_hr_window(pts, t, HrWindowSeconds, "before")
        post_hr == mean_hr_window(pts, t, HrWindowSeconds, "after")
    IN  IF pre_pace = None \/ post_pace = None THEN <<>>
        ELSE IF PaceDropBelow(Val(pre_pace), Val(post_pace), prm.pace_drop_threshold) THEN <<>>
        ELSE IF pre_hr = None \/ post_hr = None THEN <<>>
        ELSE IF HrSpikeBelow(Val(pre_hr), Val(post_hr), prm.hr_spike_threshold) THEN <<>>
        ELSE << [ t |-> t,
                  pre_pace |-> Val(pre_pace),
                  post_pace |-> Val(post_pace),
                  pace_drop_pct |-> <<Val(post_pace) - Val(pre_pace), Val(pre_pace)>>,
                  pre_hr |-> Val(pre_hr),
                  peak_hr |-> Val(post_hr) ] >>

\* The body of the candidate loop: <<>> when the candidate is skipped
\* (a continue), else the one raw candidate appended.
EvalCandidate(pts, t, prm) ==
    LET pre_pace == rolling_median_pace(pts, t, prm.pre_window_seconds, "before")
        post_pace == rolling_median_pace(pts, t, prm.post_window_seconds, "after")
        pre_hr == mean_hr_window(pts, t, HrWindowSeconds, "before")
        post_hr == mean_hr_window(pts, t, HrWindowSeconds, "after")
        grade == elevation_grade_around(pts, t, GradeWindowSeconds)
    IN  IF pre_pace = None \/ post_pace = None THEN <<>>
        ELSE IF PaceDropBelow(Val(pre_pace), Val(post_pace), prm.pace_drop_threshold) THEN <<>>
        ELSE IF pre_hr = None \/ post_hr = None THEN <<>>
        ELSE IF HrSpikeBelow(Val(pre_hr), Val(post_hr), prm.hr_spike_threshold) THEN <<>>
        ELSE IF OnHill(grade, prm.hill_grade_threshold) THEN <<>>
        ELSE << [ t |-> t,
                  pre_pace |-> Val(pre_pace),
                  post_pace |-> Val(post_pace),
                  pace_drop_pct |-> <<Val(post_pace) - Val(pre_pace), Val(pre_pace)>>,
                  pre_hr |-> Val(pre_hr),
                  peak_hr |-> Val(post_hr) ] >>

\* CandidateTimes without the warmup cutoff
CandidateTimesNoWarmup(pts, prm) ==
    SelectSeq(SeqMap(LAMBDA p: p.elapsed_seconds, pts), LAMBDA t: t % CandidateStep = 0)

\* candidate_times: the elapsed times after the warmup that fall on the grid
CandidateTimes(pts, prm) ==
    LET times == SeqMap(LAMBDA p: p.elapsed_seconds, pts)
        after_warmup == SelectSeq(times, LAMBDA t: t >= prm.min_elapsed_seconds)
    IN  SelectSeq(after_warmup, LAMBDA t: t % CandidateStep = 0)

RECURSIVE RawFrom(_, _, _, _)
RawFrom(pts, times, i, prm) ==
    IF i > Len(times) THEN <<>>
    ELSE EvalCandidate(pts, times[i], prm) \o RawFrom(pts, times, i + 1, prm)

RawCandidates(pts, prm) == RawFrom(pts, CandidateTimes(pts, prm), 1, prm)

\* LargerDrop keeping the candidate with the smaller pace drop
SmallerDrop(c, cur) ==
    c.pace_drop_pct[1] * cur.pace_drop_pct[2] < cur.pace_drop_pct[1] * c.pace_drop_pct[2]

\* "candidate["pace_drop_pct"] > current["pace_drop_pct"]" on two ratios
LargerDrop(c, cur) ==
    c.pace_drop_pct[1] * cur.pace_drop_pct[2] > cur.pace_drop_pct[1] * c.pace_drop_pct[2]

\* MergeFrom with a candidate exactly one merge window away starting a new cluster
RECURSIVE MergeFromStrict(_, _, _, _)
MergeFromStrict(raw, i, current, prm) ==
    IF i > Len(raw) THEN <<current>>
    ELSE IF raw[i].t - current.t < prm.merge_window_seconds
         THEN MergeFromStrict(raw, i + 1, IF LargerDrop(raw[i], current) THEN raw[i] ELSE current, prm)
         ELSE <<current>> \o MergeFromStrict(raw, i + 1, raw[i], prm)

\* MergeFrom folding a candidate up to two merge windows away
RECURSIVE MergeFromTwoWindows(_, _, _, _)
MergeFromTwoWindows(raw, i, current, prm) ==
    IF i > Len(raw) THEN <<current>>
    ELSE IF raw[i].t - current.t <= 2 * prm.merge_window_seconds
         THEN MergeFromTwoWindows(raw, i + 1, IF LargerDrop(raw[i], current) THEN raw[i] ELSE current, prm)
         ELSE <<current>> \o MergeFromTwoWindows(raw, i + 1, raw[i], prm)

\* The merge loop from its i-th candidate on, with `current` the open cluster's
\* representative; the result is what the loop and the final append add to merged.
RECURSIVE MergeFrom(_, _, _, _)
MergeFrom(raw, i, current, prm) ==
    IF i > Len(raw) THEN <<current>>
    ELSE IF raw[i].t - current.t <= prm.merge_window_seconds
         THEN MergeFrom(raw, i + 1, IF LargerDrop(raw[i], current) THEN raw[i] ELSE current, prm)
         ELSE <<current>> \o MergeFrom(raw, i + 1, raw[i], prm)

Merged(raw, prm) == IF raw = <<>> THEN <<>> ELSE MergeFrom(raw, 2, raw[1], prm)

\* "recovery_pace <= c["pre_pace"] * (1 + recovery_threshold)"
WithinRecovery(recovery_pace, pre_pace, threshold_pct) ==
    recovery_pace * 100 <= pre_pace * (100 + threshold_pct)

RecoveryStart(onset, prm) == onset + prm.post_window_seconds + prm.recovery_window_seconds

\* BuildEvent with the recovery end set whenever the recovery window has data
BuildEventEndAlways(pts, c, prm) ==
    LET onset == c.t
        recovery_start == RecoveryStart(onset, prm)
        recovery_pace == rolling_median_pace(pts, recovery_start, prm.pre_window_seconds, "after")
        recovered == IF recovery_pace /= None
                     THEN WithinRecovery(Val(recovery_pace), c.pre_pace, prm.recovery_threshold)
                     ELSE FALSE
    IN  [ elapsed_seconds_onset |-> onset,
          pre_bonk_pace_s_per_km |-> c.pre_pace,
          bonk_pace_s_per_km |-> c.post_pace,
          pace_drop_pct |-> RoundRatio(1000 * c.pace_drop_pct[1], c.pace_drop_pct[2]),
          pre_bonk_hr |-> RoundRatio(10 * c.pre_hr[1], c.pre_hr[2]),
          peak_hr |-> RoundRatio(10 * c.peak_hr[1], c.peak_hr[2]),
          recovered |-> recovered,
          elapsed_seconds_end |-> IF recovery_pace /= None THEN Some(recovery_start) ELSE None ]

\* One BonkEvent, with the recovery assessment
BuildEvent(pts, c, prm) ==
    LET onset == c.t
        recovery_start == RecoveryStart(onset, prm)
        recovery_pace == rolling_median_pace(pts, recovery_start, prm.pre_window_seconds, "after")
        recovered == IF recovery_pace /= None
                     THEN WithinRecovery(Val(recovery_pace), c.pre_pace, prm.recovery_threshold)
                     ELSE FALSE
    IN  [ elapsed_seconds_onset |-> onset,
          pre_bonk_pace_s_per_km |-> c.pre_pace,
          bonk_pace_s_per_km |-> c.post_pace,
          pace_drop_pct |-> RoundRatio(1000 * c.pace_drop_pct[1], c.pace_drop_pct[2]),
          pre_bonk_hr |-> RoundRatio(10 * c.pre_hr[1], c.pre_hr[2]),
          peak_hr |-> RoundRatio(10 * c.peak_hr[1], c.peak_hr[2]),
          recovered |-> recovered,
          elapsed_seconds_end |-> IF recovered THEN Some(recovery_start) ELSE None ]

EventsOf(pts, raw, prm) ==
    LET merged == Merged(raw, prm)
    IN  [i \in 1..Len(merged) |-> BuildEvent(pts, merged[i], prm)]

\* detect_bonk: the returned list of BonkEvent
detect_bonk(pts, prm) ==
    IF pts = <<>> THEN <<>> ELSE EventsOf(pts, RawCandidates(pts, prm), prm)

----------------------------------------------------------------------------
(* The inputs of detect_bonk *)

NumSamples == 11   \* samples per timeseries, one every CandidateStep seconds

\* A run in three phases, each at one pace: absent, zero (both unusable),
\* or one of three usable paces (480 is 20% above 400, 600 is 25% above 480).
PaceChoices == {None, Some(0), Some(400), Some(480), Some(600)}

ThreePhase(i, b1, b2, x, y, z) == IF i < b1 THEN x ELSE IF i < b2 THEN y ELSE z

\* Heart rate: a base of 140 bpm, a ramp of `slope` bpm per sample, a step of
\* `amount` bpm from slot `at` on, and no reading before slot `from`.
HrProfiles ==
    { [slope |-> 0,  at |-> 0, amount |-> 0,  from |-> 0],
      [slope |-> 2,  at |-> 0, amount |-> 0,  from |-> 0],
      [slope |-> 10, at |-> 0, amount |-> 0,  from |-> 0],
      [slope |-> 0,  at |-> 4, amount |-> 10, from |-> 0],
      [slope |-> 0,  at |-> 6, amount |-> 10, from |-> 0],
      [slope |-> 10, at |-> 0, amount |-> 0,  from |-> 4] }

HrAt(h, i) ==
    IF i < h.from THEN None
    ELSE Some(140 + h.slope * i + (IF i >= h.at THEN h.amount ELSE 0))

\* Terrain: 60 m of distance per sample; "up" and "down" change the elevation
\* by 3 m per sample (a 5% grade) after slot 6; "stalled" climbs with the
\* distance standing still; "nodata" carries no elevation.
Terrains == {"flat", "up", "down", "stalled", "nodata"}

ElevAt(terrain, i) ==
    CASE terrain = "flat" -> Some(100)
      [] terrain = "up" -> Some(100 + (IF i > 6 THEN 3 * (i - 6) ELSE 0))
      [] terrain = "down" -> Some(100 - (IF i > 6 THEN 3 * (i - 6) ELSE 0))
      [] terrain = "stalled" -> Some(100 + 3 * i)
      [] OTHER -> None

DistAt(terrain, i) == IF terrain = "stalled" THEN Some(500) ELSE Some(60 * i)

MkPoint(i, pace, hr, terrain) ==
    [ elapsed_seconds |-> CandidateStep * i,
      heart_rate |-> hr,
      pace_seconds_per_km |-> pace,
      elevation_meters |-> ElevAt(terrain, i),
      distance_meters |-> DistAt(terrain, i) ]

Timeseries(b1, b2, x, y, z, h, terrain) ==
    [ k \in 1..NumSamples |->
        MkPoint(k - 1, ThreePhase(k - 1, b1, b2, x, y, z), HrAt(h, k - 1), terrain) ]

\* The tunables: the thresholds at their defaults, the windows scaled to the
\* length of the timeseries.
DefaultParams ==
    [ pace_drop_threshold |-> 20,       \* 0.20
      hr_spike_threshold |-> 8,         \* 8.0 bpm
      pre_window_seconds |-> 45,
      post_window_seconds |-> 45,
      recovery_window_seconds |-> 15,
      recovery_threshold |-> 15,        \* 0.15
      hill_grade_threshold |-> 5,       \* 0.05
      min_elapsed_seconds |-> 60,
      merge_window_seconds |-> 15 ]

ParamSets ==
    { DefaultParams,
      [DefaultParams EXCEPT !.min_elapsed_seconds = 70, !.merge_window_seconds = 30],
      [DefaultParams EXCEPT !.min_elapsed_seconds = 600] }   \* the default warmup

NoLapInputs == splits = <<>> /\ segments = <<>> /\ active = <<>>

InitBonk ==
    /\ pc = "input"
    /\ \E b1 \in 0..NumSamples, b2 \in 0..NumSamples, x \in PaceChoices,
          y \in PaceChoices, z \in PaceChoices, h \in HrProfiles, terrain \in Terrains :
            /\ b1 <= b2
            /\ points = Timeseries(b1, b2, x, y, z, h, terrain)
    /\ params \in ParamSets
    /\ laps = <<>>
    /\ raw_candidates = <<>>
    /\ events = <<>>
    /\ NoLapInputs
    /\ NoOtherInputs

\* A call detect_bonk(points, **params)
DetectBonk ==
    /\ pc = "input"
    /\ pc' = "detect_bonk"
    /\ raw_candidates' = IF points = <<>> THEN <<>> ELSE RawCandidates(points, params)
    /\ events' = detect_bonk(points, params)
    /\ UNCHANGED <<points, params, laps, splits, segments, active, other_vars>>

NextBonk == DetectBonk

SpecBonk == InitBonk /\ [][NextBonk]_vars

----------------------------------------------------------------------------
(* The inputs of detect_bonk for a collapse in stages: the pace holds 400  *)
(* up to a sample and then follows a ramp, one level for each sample, the  *)
(* last level held to the end.                                             *)

\* A pace that keeps getting worse, ever faster; one that worsens in two
\* stages; one that drops once; one that drops and comes back; one that
\* worsens and eases; and no change
Ramps ==
    { <<480, 600, 800, 1200>>,
      <<480, 480, 600, 600>>,
      <<600, 600, 600, 600>>,
      <<600, 400, 400, 400>>,
      <<480, 800, 600, 600>>,
      <<400, 400, 400, 400>> }

RampPace(i, b, ramp) ==
    IF i < b THEN Some(400)
    ELSE IF i - b + 1 <= Len(ramp) THEN Some(ramp[i - b + 1])
    ELSE Some(ramp[Len(ramp)])

RampTimeseries(b, ramp, h, terrain) ==
    [ k \in 1..NumSamples |-> MkPoint(k - 1, RampPace(k - 1, b, ramp), HrAt(h, k - 1), terrain) ]

InitRamp ==
    /\ pc = "input"
    /\ \E b \in 0..NumSamples, ramp \in Ramps, h \in HrProfiles, terrain \in {"flat", "up"} :
            points = RampTimeseries(b, ramp, h, terrain)
    /\ params \in ParamSets
    /\ laps = <<>>
    /\ raw_candidates = <<>>
    /\ events = <<>>
    /\ NoLapInputs
    /\ NoOtherInputs

NextRamp == DetectBonk

SpecRamp == InitRamp /\ [][NextRamp]_vars

----------------------------------------------------------------------------
(* segments.py: LapSegment and build_lap_segments *)

WARMUP_COOLDOWN_DISTANCE_M == 1000

\* is_active with walk laps eligible too
is_activeWithWalk(seg) ==
    seg.split_type \in {"run_segment", "walk_segment", "warmup_segment", "cooldown_segment"}

\* is_active without the cooldown type
is_activeNoCooldown(seg) == seg.split_type \in {"run_segment", "warmup_segment"}

\* LapSegment.is_active
is_active(seg) == seg.split_type \in {"run_segment", "warmup_segment", "cooldown_segment"}

\* int(duration_seconds), the duration being held in tenths of a second
IntSeconds(duration_tenths) == duration_tenths \div 10

\* HeuristicWarmupIdx with a first lap of exactly the threshold distance taken as warmup
HeuristicWarmupIdxAtMost(sp) ==
    IF sp[1].split_type = "run_segment" /\ sp[1].distance_meters <= WARMUP_COOLDOWN_DISTANCE_M
    THEN Some(0) ELSE None

\* heuristic_warmup_idx (0-based, or None); sp is not empty
HeuristicWarmupIdx(sp) ==
    IF sp[1].split_type = "run_segment" /\ sp[1].distance_meters < WARMUP_COOLDOWN_DISTANCE_M
    THEN Some(0) ELSE None

\* heuristic_cooldown_idx (0-based, or None); sp is not empty
HeuristicCooldownIdx(sp) ==
    LET n == Len(sp)
    IN  IF /\ n > 1
           /\ sp[n].split_type \in {"run_segment", "walk_segment"}
           /\ sp[n].distance_meters < WARMUP_COOLDOWN_DISTANCE_M
        THEN IF Some(n - 1) /= HeuristicWarmupIdx(sp) THEN Some(n - 1) ELSE None
        ELSE None

\* LabelKind with the distance heuristics tried before the explicit tags, and
\* the cooldown heuristic open to a lap of any type
LabelKindHeuristicsFirst(sp, i) ==
    IF Some(i) = HeuristicWarmupIdx(sp) THEN "Warmup"
    ELSE IF /\ Len(sp) > 1
            /\ i = Len(sp) - 1
            /\ sp[i + 1].distance_meters < WARMUP_COOLDOWN_DISTANCE_M THEN "Cooldown"
    ELSE IF sp[i + 1].split_type = "warmup_segment" THEN "Warmup"
    ELSE IF sp[i + 1].split_type = "cooldown_segment" THEN "Cooldown"
    ELSE IF sp[i + 1].split_type = "walk_segment" THEN "Walk"
    ELSE "Run"

\* The branch of the label chain taken by split i (0-based)
LabelKind(sp, i) ==
    IF sp[i + 1].split_type = "warmup_segment" THEN "Warmup"
    ELSE IF sp[i + 1].split_type = "cooldown_segment" THEN "Cooldown"
    ELSE IF Some(i) = HeuristicWarmupIdx(sp) THEN "Warmup"
    ELSE IF Some(i) = HeuristicCooldownIdx(sp) THEN "Cooldown"
    ELSE IF sp[i + 1].split_type = "walk_segment" THEN "Walk"
    ELSE "Run"

\* f"Walk {walk_counter}", f"Run {run_counter}"
Numbered(kind, n) == kind \o " " \o ToString(n)

\* heart_rate.py: _ZONE_BOUNDARIES, the lower bounds of zones 2-5 in percent
ZONE_BOUNDARIES == <<60, 70, 80, 90>>

\* the for loop of classify_hr_zone from boundary k on: "pct < boundary"
\* for pct = heart_rate / max_hr
RECURSIVE ZoneFrom(_, _, _)
ZoneFrom(heart_rate, maxhr, k) ==
    IF k > Len(ZONE_BOUNDARIES) THEN 5
    ELSE IF heart_rate * 100 < ZONE_BOUNDARIES[k] * maxhr THEN k
    ELSE ZoneFrom(heart_rate, maxhr, k + 1)

classify_hr_zone(heart_rate, maxhr) == ZoneFrom(heart_rate, maxhr, 1)

\* the counting loop of _hr_zone_distribution over hr_pts
RECURSIVE ZoneCounts(_, _, _)
ZoneCounts(hr_pts, maxhr, zone_counts) ==
    IF hr_pts = <<>> THEN zone_counts
    ELSE LET z == classify_hr_zone(HrOf(Head(hr_pts)), maxhr)
         IN  ZoneCounts(Tail(hr_pts), maxhr, [zone_counts EXCEPT ![z] = @ + 1])

\* _hr_zone_distribution with the fractions taken of all the samples handed in
hr_zone_distributionOfAll(pts, maxhr) ==
    LET hr_pts == SelectSeq(pts, LAMBDA p: p.heart_rate /= None)
        zone_counts == ZoneCounts(hr_pts, maxhr, [z \in 1..5 |-> 0])
    IN  IF hr_pts = <<>> THEN [z \in 1..5 |-> <<0, 1>>]
        ELSE [z \in 1..5 |-> <<zone_counts[z], Len(pts)>>]

\* _hr_zone_distribution: zone -> fraction, a fraction being <<count, total>>
\* and 0.0 being <<0, 1>>
hr_zone_distribution(pts, maxhr) ==
    LET hr_pts == SelectSeq(pts, LAMBDA p: p.heart_rate /= None)
        zone_counts == ZoneCounts(hr_pts, maxhr, [z \in 1..5 |-> 0])
        total == zone_counts[1] + zone_counts[2] + zone_counts[3] + zone_counts[4] + zone_counts[5]
    IN  IF hr_pts = <<>> THEN [z \in 1..5 |-> <<0, 1>>]
        ELSE [z \in 1..5 |-> <<zone_counts[z], total>>]

MkLapSegment(sp, label, zones) ==
    [ label |-> label,
      split_type |-> sp.split_type,
      start_elapsed_s |-> sp.start_elapsed_seconds,
      end_elapsed_s |-> sp.start_elapsed_seconds + IntSeconds(sp.duration_seconds),
      duration_seconds |-> sp.duration_seconds,
      distance_meters |-> sp.distance_meters,
      hr_zone_distribution |-> zones ]

\* window_pts and zones of split i (0-based)
LapZones(sp, ts, maxhr, i) ==
    LET start_s == sp[i + 1].start_elapsed_seconds
        end_s == start_s + IntSeconds(sp[i + 1].duration_seconds)
        window_pts == SelectSeq(ts, LAMBDA p: start_s <= p.elapsed_seconds /\ p.elapsed_seconds < end_s)
    IN  hr_zone_distribution(window_pts, maxhr)

\* LapLoop with a lap labelled Warmup or Cooldown using up a Run number
RECURSIVE LapLoopCountAll(_, _, _, _, _, _)
LapLoopCountAll(sp, ts, maxhr, i, run_counter, walk_counter) ==
    IF i >= Len(sp) THEN <<>>
    ELSE LET kind == LabelKind(sp, i)
             zones == LapZones(sp, ts, maxhr, i)
         IN  IF kind = "Walk"
             THEN <<MkLapSegment(sp[i + 1], Numbered("Walk", walk_counter + 1), zones)>>
                    \o LapLoopCountAll(sp, ts, maxhr, i + 1, run_counter, walk_counter + 1)
             ELSE IF kind = "Run"
             THEN <<MkLapSegment(sp[i + 1], Numbered("Run", run_counter + 1), zones)>>
                    \o LapLoopCountAll(sp, ts, maxhr, i + 1, run_counter + 1, walk_counter)
             ELSE <<MkLapSegment(sp[i + 1], kind, zones)>>
                    \o LapLoopCountAll(sp, ts, maxhr, i + 1, run_counter + 1, walk_counter)

\* The loop over the splits from split i (0-based) on, with the two counters
RECURSIVE LapLoop(_, _, _, _, _, _)
LapLoop(sp, ts, maxhr, i, run_counter, walk_counter) ==
    IF i >= Len(sp) THEN <<>>
    ELSE LET kind == LabelKind(sp, i)
             zones == LapZones(sp, ts, maxhr, i)
         IN  IF kind = "Walk"
             THEN <<MkLapSegment(sp[i + 1], Numbered("Walk", walk_counter + 1), zones)>>
                    \o LapLoop(sp, ts, maxhr, i + 1, run_counter, walk_counter + 1)
             ELSE IF kind = "Run"
             THEN <<MkLapSegment(sp[i + 1], Numbered("Run", run_counter + 1), zones)>>
                    \o LapLoop(sp, ts, maxhr, i + 1, run_counter + 1, walk_counter)
             ELSE <<MkLapSegment(sp[i + 1], kind, zones)>>
                    \o LapLoop(sp, ts, maxhr, i + 1, run_counter, walk_counter)

\* build_lap_segments: the returned list of LapSegment
build_lap_segments(sp, ts, maxhr) ==
    IF sp = <<>> THEN <<>> ELSE LapLoop(sp, ts, maxhr, 0, 0, 0)

----------------------------------------------------------------------------
(* The inputs of build_lap_segments *)

MaxLaps == 3    \* splits per activity

\* normalize_lap's split types: ACTIVE, RECOVERY, WARMUP, COOLDOWN, anything else
SplitTypes == {"run_segment", "walk_segment", "warmup_segment", "cooldown_segment", "lap"}

\* below the warmup/cooldown distance, and exactly at it
LapDistances == {400, 1000}

\* in tenths of a second: 45.0 s and 52.5 s
LapDurations == {450, 525}

\* A lap with no linked workout step, or a run lap whose step is a recovery
LapChoices ==
    [split_type : SplitTypes, distance_meters : LapDistances,
     duration_seconds : LapDurations, wkt_step_type : {None}]
    \cup
    [split_type : {"run_segment"}, distance_meters : LapDistances,
     duration_seconds : LapDurations, wkt_step_type : {Some("recovery")}]

\* Laps that abut: each starts where the one before it ends
RECURSIVE StartOf(_, _)
StartOf(choice, i) ==
    IF i = 1 THEN 0 ELSE StartOf(choice, i - 1) + IntSeconds(choice[i - 1].duration_seconds)

MkSplits(choice) ==
    [ i \in 1..Len(choice) |->
        [ split_type |-> choice[i].split_type,
          distance_meters |-> choice[i].distance_meters,
          duration_seconds |-> choice[i].duration_seconds,
          wkt_step_type |-> choice[i].wkt_step_type,
          start_elapsed_seconds |-> StartOf(choice, i) ] ]

NoBonkInputs ==
    points = <<>> /\ params = DefaultParams /\ laps = <<>> /\ raw_candidates = <<>> /\ events = <<>>

InitLaps ==
    /\ pc = "input"
    /\ \E n \in 0..MaxLaps : \E choice \in [1..n -> LapChoices] : splits = MkSplits(choice)
    /\ segments = <<>>
    /\ active = <<>>
    /\ NoBonkInputs
    /\ NoOtherInputs

\* A call build_lap_segments(splits, timeseries)
BuildLapSegments ==
    /\ pc = "input"
    /\ pc' = "build_lap_segments"
    /\ segments' = build_lap_segments(splits, points, max_hr)
    /\ UNCHANGED <<points, params, laps, raw_candidates, events, splits, active, other_vars>>

\* is_active() asked of every LapSegment returned
IsActive ==
    /\ pc = "build_lap_segments"
    /\ pc' = "is_active"
    /\ active' = [i \in 1..Len(segments) |-> is_active(segments[i])]
    /\ UNCHANGED <<points, params, laps, raw_candidates, events, splits, segments, other_vars>>

NextLaps == BuildLapSegments \/ IsActive

SpecLaps == InitLaps /\ [][NextLaps]_vars

----------------------------------------------------------------------------
(* segments.py: RunSegment and build_mile_segments.  Distances and        *)
(* elevations are whole metres; the mile is held in millimetres.           *)

METERS_PER_MILE_MM == 1609344   \* METERS_PER_MILE = 1609.344
TOLERANCE_M == 10
CoveragePct == 95               \* "METERS_PER_MILE * 0.95"

HasDistance(p) == p.distance_meters /= None

\* max(p.distance_meters for p in pts), pts not empty
RECURSIVE MaxDistance(_)
MaxDistance(pts) ==
    IF Len(pts) = 1 THEN Val(pts[1].distance_meters)
    ELSE LET m == MaxDistance(Tail(pts))
             d == Val(pts[1].distance_meters)
         IN  IF d > m THEN d ELSE m

\* _grade_pct_for_segment: the grade in percent as <<rise * 100, run>>, 0.0 as <<0, 1>>
grade_pct_for_segment(pts) ==
    LET valid == SelectSeq(pts, LAMBDA p: p.elevation_meters /= None /\ p.distance_meters /= None)
        srt == SortByElapsed(valid)
        n == Len(srt)
        elev_change == Val(srt[n].elevation_meters) - Val(srt[1].elevation_meters)
        dist_change == Val(srt[n].distance_meters) - Val(srt[1].distance_meters)
    IN  IF Len(valid) < 2 THEN <<0, 1>>
        ELSE IF dist_change <= 0 THEN <<0, 1>>
        ELSE <<elev_change * 100, dist_change>>

\* pace.py grade_adjusted_pace: pace / minetti_grade_multiplier(grade).  The
\* value is held as the two arguments of the division; the polynomial is
\* not evaluated.
grade_adjusted_pace(pace_s_per_km, grade) == [pace_s_per_km |-> pace_s_per_km, grade |-> grade]

\* avg_pace of a mile as a ratio: the mean of the valid paces, or else
\* (elapsed_s / METERS_PER_MILE) * 1000 = elapsed_s * 15625 / 25146, or else 0.0
MileAvgPace(mile_pts) ==
    LET pace_pts == SelectSeq(mile_pts, HasPace)
        elapsed_s == mile_pts[Len(mile_pts)].elapsed_seconds - mile_pts[1].elapsed_seconds
    IN  IF pace_pts /= <<>> THEN <<SumSeq(SeqMap(PaceOf, pace_pts)), Len(pace_pts)>>
        ELSE IF elapsed_s > 0 THEN <<elapsed_s * 15625, 25146>>
        ELSE <<0, 1>>

\* One RunSegment from the samples of a complete mile (unsorted).  Rounded
\* fields are held in their last kept digit.
MkRunSegment(mile_index, unsorted_pts, maxhr) ==
    LET mile_pts == SortByElapsed(unsorted_pts)
        avg_pace == MileAvgPace(mile_pts)
        hr_pts == SelectSeq(mile_pts, LAMBDA p: p.heart_rate /= None)
        avg_hr == IF hr_pts /= <<>> THEN <<SumSeq(SeqMap(HrOf, hr_pts)), Len(hr_pts)>> ELSE <<0, 1>>
        grade_pct == grade_pct_for_segment(mile_pts)
        grade_decimal == <<grade_pct[1], grade_pct[2] * 100>>
    IN  [ label |-> Numbered("Mile", mile_index + 1),
          start_elapsed_s |-> mile_pts[1].elapsed_seconds,
          end_elapsed_s |-> mile_pts[Len(mile_pts)].elapsed_seconds,
          avg_pace_s_per_km |-> RoundRatio(100 * avg_pace[1], avg_pace[2]),
          avg_hr |-> RoundRatio(10 * avg_hr[1], avg_hr[2]),
          grade_pct |-> RoundRatio(100 * grade_pct[1], grade_pct[2]),
          gap_s_per_km |-> IF avg_pace[1] > 0
                           THEN grade_adjusted_pace(avg_pace, grade_decimal)
                           ELSE grade_adjusted_pace(avg_pace, <<0, 1>>),
          hr_zone_distribution |-> hr_zone_distribution(mile_pts, maxhr) ]

\* The samples of mile band mile_index
MilePts(pts, mile_index) ==
    SelectSeq(pts, LAMBDA p:
        /\ HasDistance(p)
        /\ mile_index * METERS_PER_MILE_MM <= Val(p.distance_meters) * 1000
        /\ Val(p.distance_meters) * 1000 < (mile_index + 1) * METERS_PER_MILE_MM)

\* "coverage < METERS_PER_MILE * 0.95"
CoverageBelow(mile_pts, mile_index) ==
    (MaxDistance(mile_pts) * 1000 - mile_index * METERS_PER_MILE_MM) * 100
        < METERS_PER_MILE_MM * CoveragePct

\* MileLoop going on to the next band after a band that is empty or incomplete
RECURSIVE MileLoopSkipping(_, _, _, _)
MileLoopSkipping(pts, maxhr, total_distance, mile_index) ==
    IF mile_index * METERS_PER_MILE_MM >= (total_distance + TOLERANCE_M) * 1000 THEN <<>>
    ELSE LET mile_pts == MilePts(pts, mile_index)
         IN  IF mile_pts = <<>> \/ CoverageBelow(mile_pts, mile_index)
             THEN MileLoopSkipping(pts, maxhr, total_distance, mile_index + 1)
             ELSE <<MkRunSegment(mile_index, mile_pts, maxhr)>>
                    \o MileLoopSkipping(pts, maxhr, total_distance, mile_index + 1)

\* The while loop of build_mile_segments from band mile_index on
RECURSIVE MileLoop(_, _, _, _)
MileLoop(pts, maxhr, total_distance, mile_index) ==
    IF mile_index * METERS_PER_MILE_MM >= (total_distance + TOLERANCE_M) * 1000 THEN <<>>
    ELSE LET mile_pts == MilePts(pts, mile_index)
         IN  IF mile_pts = <<>> THEN <<>>
             ELSE IF CoverageBelow(mile_pts, mile_index) THEN <<>>
             ELSE <<MkRunSegment(mile_index, mile_pts, maxhr)>>
                    \o MileLoop(pts, maxhr, total_distance, mile_index + 1)

\* build_mile_segments taking the maximum distance of whatever it is given
build_mile_segmentsUnguarded(pts_in, maxhr) ==
    LET pts == SortByElapsed(pts_in)
        dist_pts == SelectSeq(pts, HasDistance)
    IN  IF dist_pts = <<>> THEN Raised("ValueError")
        ELSE IF MaxDistance(dist_pts) * 1000 < METERS_PER_MILE_MM THEN <<>>
        ELSE MileLoop(pts, maxhr, MaxDistance(dist_pts), 0)

\* build_mile_segments: the returned list of RunSegment
build_mile_segments(pts_in, maxhr) ==
    LET pts == SortByElapsed(pts_in)
        dist_pts == SelectSeq(pts, HasDistance)
    IN  IF pts_in = <<>> THEN <<>>
        ELSE IF dist_pts = <<>> THEN <<>>
        ELSE IF MaxDistance(dist_pts) * 1000 < METERS_PER_MILE_MM THEN <<>>
        ELSE MileLoop(pts, maxhr, MaxDistance(dist_pts), 0)

----------------------------------------------------------------------------
(* The inputs of build_mile_segments, and of build_lap_segments with a    *)
(* timeseries                                                              *)

NumMilePts == 4          \* samples per timeseries
MileSampleSeconds == 4 * 60 \* one sample every four minutes

\* Cumulative distances: inside the first mile (800), just under and just
\* over 95% of it (1528, 1529); early in the second mile (1700) and past
\* 95% of it (3140); past 95% of the third (4800).
MileDistances == {800, 1528, 1529, 1700, 3140, 4800}

MileDistanceChoices == {None} \cup { Some(d) : d \in MileDistances }

\* The heart rate of sample i: 111 is exactly 60% of 185, the rates of
\* "mixed" fall in zones 1, 2, 4 and 5 of a maximum of 185; "gaps" has a
\* reading on every other sample only, 100 and 150 in turn
MileHrAt(kind, i) ==
    CASE kind = "none" -> None
      [] kind = "low" -> Some(100)
      [] kind = "edge" -> Some(111)
      [] kind = "mixed" -> Some(<<100, 111, 150, 170>>[(i % 4) + 1])
      [] OTHER -> IF i % 2 = 1 THEN None ELSE Some(<<100, 150>>[((i \div 2) % 2) + 1])

MileProfiles ==
    { [hr |-> "none",  paced |-> TRUE,  climb |-> 0],
      [hr |-> "low",   paced |-> TRUE,  climb |-> 0],
      [hr |-> "edge",  paced |-> FALSE, climb |-> 0],
      [hr |-> "mixed", paced |-> TRUE,  climb |-> 7],
      [hr |-> "mixed", paced |-> FALSE, climb |-> 0],
      [hr |-> "gaps",  paced |-> TRUE,  climb |-> 0],
      [hr |-> "gaps",  paced |-> FALSE, climb |-> 7] }

MilePoint(i, d, profile) ==
    [ elapsed_seconds |-> MileSampleSeconds * i,
      heart_rate |-> MileHrAt(profile.hr, i),
      pace_seconds_per_km |-> IF profile.paced THEN Some(450 + 10 * i) ELSE None,
      elevation_meters |-> Some(100 + profile.climb * i),
      distance_meters |-> d ]

\* cumulative distance never decreases
Nondecreasing(ds) ==
    \A i \in DOMAIN ds : \A j \in DOMAIN ds :
        (i < j /\ ds[i] /= None /\ ds[j] /= None) => Val(ds[i]) <= Val(ds[j])

MaxHrChoices == {MAX_HR_DEFAULT, 150}

\* No lap; a run lap [0, 480) and a walk lap of 480.5 s, [480, 960); one
\* lap that ends before the second sample
MileLapLists ==
    { <<>>,
      << [split_type |-> "run_segment", distance_meters |-> 1600,
          duration_seconds |-> 4800, wkt_step_type |-> None],
         [split_type |-> "walk_segment", distance_meters |-> 400,
          duration_seconds |-> 4805, wkt_step_type |-> None] >>,
      << [split_type |-> "lap", distance_meters |-> 1000,
          duration_seconds |-> 2395, wkt_step_type |-> None] >> }

InitMiles ==
    /\ pc = "input"
    /\ \E n \in 0..NumMilePts, profile \in MileProfiles :
          \E ds \in [1..n -> MileDistanceChoices] :
              /\ Nondecreasing(ds)
              /\ points = [i \in 1..n |-> MilePoint(i - 1, ds[i], profile)]
    /\ max_hr \in MaxHrChoices
    /\ \E choice \in MileLapLists : splits = MkSplits(choice)
    /\ segments = <<>>
    /\ active = <<>>
    /\ mile_segments = <<>>
    /\ params = DefaultParams /\ laps = <<>> /\ raw_candidates = <<>> /\ events = <<>>
    /\ drift_params = DefaultDriftParams /\ drift = <<>>
    /\ typed_splits = <<>> /\ min_walk_segments = DefaultMinWalkSegments /\ galloway = <<>>
    /\ NoFitInputs
    /\ NoSyncInputs
    /\ NoLoop

\* A call build_mile_segments(points, max_hr)
BuildMileSegments ==
    /\ pc = "input"
    /\ pc' = "build_mile_segments"
    /\ mile_segments' = build_mile_segments(points, max_hr)
    /\ UNCHANGED <<points, max_hr, bonk_vars, lap_vars, drift_vars, galloway_vars, fit_vars, sync_vars, loop>>

NextMiles == BuildMileSegments \/ BuildLapSegments

SpecMiles == InitMiles /\ [][NextMiles]_vars

----------------------------------------------------------------------------
(* heart_rate.py: detect_cardiac_drift.  Means and the regression are     *)
(* computed exactly, on ratios <<numerator, denominator>> in lowest terms. *)

RECURSIVE GCD(_, _)
GCD(a, b) == IF b = 0 THEN a ELSE GCD(b, a % b)

\* n / d in lowest terms, d > 0
Rat(n, d) == LET g == GCD(Abs(n), d) IN <<n \div g, d \div g>>

RAdd(a, b) == Rat(a[1] * b[2] + b[1] * a[2], a[2] * b[2])
RSub(a, b) == Rat(a[1] * b[2] - b[1] * a[2], a[2] * b[2])
RMul(a, b) == Rat(a[1] * b[1], a[2] * b[2])
RLess(a, b) == a[1] * b[2] < b[1] * a[2]

RECURSIVE RSum(_)
RSum(s) == IF s = <<>> THEN <<0, 1>> ELSE RAdd(Head(s), RSum(Tail(s)))

\* statistics.mean of a list of ratios, not empty
RMean(s) == RMul(RSum(s), <<1, Len(s)>>)

\* The filter with the sample at the warmup cutoff itself left out
EligibleAfterCutoff(p, warmup_seconds) ==
    /\ p.elapsed_seconds > warmup_seconds
    /\ p.heart_rate /= None
    /\ p.pace_seconds_per_km /= None
    /\ Val(p.pace_seconds_per_km) > 0

\* The filter of post_warmup: past the warmup, with a heart rate and a positive pace
Eligible(p, warmup_seconds) ==
    /\ p.elapsed_seconds >= warmup_seconds
    /\ p.heart_rate /= None
    /\ p.pace_seconds_per_km /= None
    /\ Val(p.pace_seconds_per_km) > 0

\* (stdev(paces) / mean_pace) squared, for at least two paces:
\* the sample variance is (k * sum(p^2) - sum(p)^2) / (k * (k - 1))
PaceCvSquared(paces) ==
    LET k == Len(paces)
        sum == SumSeq(paces)
        sumsq == SumSeq([i \in 1..k |-> paces[i] * paces[i]])
    IN  Rat(k * (k * sumsq - sum * sum), (k - 1) * sum * sum)

\* The dict appended for one window: <<>> when it holds under 3 samples
DriftWindow(post_warmup, t, window_seconds) ==
    LET window_points == SelectSeq(post_warmup, LAMBDA p:
                            t <= p.elapsed_seconds /\ p.elapsed_seconds < t + window_seconds)
        hrs == SeqMap(HrOf, window_points)
        paces == SeqMap(PaceOf, window_points)
    IN  IF Len(window_points) >= 3
        THEN << [ start_t |-> t,
                  mean_hr |-> Rat(SumSeq(hrs), Len(hrs)),
                  mean_pace |-> Rat(SumSeq(paces), Len(paces)),
                  pace_cv_squared |-> IF Len(paces) > 1 THEN PaceCvSquared(paces) ELSE <<0, 1>> ] >>
        ELSE <<>>

\* The while loop that builds the windows, from time t on
RECURSIVE DriftWindowsFrom(_, _, _, _)
DriftWindowsFrom(post_warmup, t, window_seconds, end_time) ==
    IF t + window_seconds <= end_time
    THEN DriftWindow(post_warmup, t, window_seconds)
            \o DriftWindowsFrom(post_warmup, t + window_seconds, window_seconds, end_time)
    ELSE <<>>

\* "w["pace_cv"] < pace_stability_threshold", the threshold in percent
IsSteady(w, threshold_pct) == RLess(w.pace_cv_squared, Rat(threshold_pct * threshold_pct, 10000))

\* The regression over the steady windows and the result, steady not empty
DriftRegression(steady, prm) ==
    LET n == Len(steady)
        x_mean == Rat(SumSeq([i \in 1..n |-> i - 1]), n)
        y_mean == RMean([i \in 1..n |-> steady[i].mean_hr])
        numerator == RSum([i \in 1..n |->
                        RMul(RSub(<<i - 1, 1>>, x_mean), RSub(steady[i].mean_hr, y_mean))])
        denominator == RSum([i \in 1..n |->
                        RMul(RSub(<<i - 1, 1>>, x_mean), RSub(<<i - 1, 1>>, x_mean))])
        slope == Rat(numerator[1] * denominator[2], numerator[2] * denominator[1])
        predicted_rise == RMul(slope, <<n - 1, 1>>)
    IN  IF denominator[1] = 0 THEN None
        ELSE IF RLess(predicted_rise, <<prm.drift_threshold_bpm, 1>>) THEN None
        ELSE Some([ onset_elapsed_seconds |-> steady[1].start_t,
                    total_hr_rise_bpm |-> RoundRatio(10 * predicted_rise[1], predicted_rise[2]),
                    pace_at_onset_s_per_km |-> steady[1].mean_pace ])

\* The steady windows of a timeseries
SteadyWindows(pts, prm) ==
    LET post_warmup == SelectSeq(pts, LAMBDA p: Eligible(p, prm.warmup_minutes * 60))
        windows == DriftWindowsFrom(post_warmup, post_warmup[1].elapsed_seconds,
                                    prm.window_minutes * 60,
                                    post_warmup[Len(post_warmup)].elapsed_seconds)
    IN  SelectSeq(windows, LAMBDA w: IsSteady(w, prm.pace_stability_threshold))

\* detect_cardiac_drift with the count of steady windows not checked
detect_cardiac_driftAnyCount(pts, prm) ==
    LET post_warmup == SelectSeq(pts, LAMBDA p: Eligible(p, prm.warmup_minutes * 60))
        steady == SteadyWindows(pts, prm)
    IN  IF post_warmup = <<>> THEN None
        ELSE IF steady = <<>> THEN Raised("StatisticsError")
        ELSE DriftRegression(steady, prm)

\* detect_cardiac_drift: None, or the CardiacDriftEvent; mean() of no
\* window at all raises StatisticsError
detect_cardiac_drift(pts, prm) ==
    LET post_warmup == SelectSeq(pts, LAMBDA p: Eligible(p, prm.warmup_minutes * 60))
        steady == SteadyWindows(pts, prm)
    IN  IF post_warmup = <<>> THEN None
        ELSE IF Len(steady) < prm.min_steady_windows THEN None
        ELSE IF steady = <<>> THEN Raised("StatisticsError")
        ELSE DriftRegression(steady, prm)

----------------------------------------------------------------------------
(* The inputs of detect_cardiac_drift *)

DriftMinutes == 5             \* minutes of data, one sample every 15 s
DriftSampleSeconds == 15
SamplesPerMinute == 60 \div DriftSampleSeconds

\* One minute of running: the heart rate of its first sample, the shape of
\* its paces, the samples whose heart rate rises by one, and the samples
\* that carry no heart rate or a zero pace.
MinuteKinds ==
    { [hr |-> 140, pace |-> "steady",    up |-> {},  no_hr |-> {},  no_pace |-> {}],
      [hr |-> 142, pace |-> "wobble",    up |-> {},  no_hr |-> {},  no_pace |-> {}],
      [hr |-> 144, pace |-> "steady",    up |-> {3}, no_hr |-> {1}, no_pace |-> {}],
      [hr |-> 146, pace |-> "steady",    up |-> {},  no_hr |-> {},  no_pace |-> {}],
      [hr |-> 150, pace |-> "intervals", up |-> {},  no_hr |-> {},  no_pace |-> {}],
      [hr |-> 149, pace |-> "steady",    up |-> {},  no_hr |-> {1}, no_pace |-> {0}] }

\* The pace of sample j of a minute: constant; within 5% of 420; or 300 and 600 in turn
MinutePace(shape, j) ==
    CASE shape = "steady" -> 420
      [] shape = "wobble" -> <<400, 420, 440, 420>>[(j % 4) + 1]
      [] OTHER -> IF j % 2 = 0 THEN 300 ELSE 600

DriftPoint(i, kind) ==
    LET j == i % SamplesPerMinute
    IN  [ elapsed_seconds |-> DriftSampleSeconds * i,
          heart_rate |-> IF j \in kind.no_hr THEN None
                         ELSE Some(kind.hr + (IF j \in kind.up THEN 1 ELSE 0)),
          pace_seconds_per_km |-> IF j \in kind.no_pace THEN Some(0)
                                  ELSE Some(MinutePace(kind.pace, j)),
          elevation_meters |-> None,
          distance_meters |-> None ]

\* DriftMinutes minutes, each of one kind, and the sample that ends the last one
DriftTimeseries(kinds) ==
    [ k \in 1..(DriftMinutes * SamplesPerMinute + 1) |->
        DriftPoint(k - 1, IF k - 1 < DriftMinutes * SamplesPerMinute
                          THEN kinds[((k - 1) \div SamplesPerMinute) + 1]
                          ELSE kinds[DriftMinutes]) ]

\* The tunables scaled to minutes of data: one-minute windows; no warmup or
\* one minute of it; and the defaults, under which no sample is past the warmup
DriftParamSets ==
    { [DefaultDriftParams EXCEPT !.warmup_minutes = 0, !.window_minutes = 1],
      [DefaultDriftParams EXCEPT !.warmup_minutes = 0, !.window_minutes = 1,
                                 !.drift_threshold_bpm = 6],
      [DefaultDriftParams EXCEPT !.warmup_minutes = 1, !.window_minutes = 1,
                                 !.drift_threshold_bpm = 6, !.min_steady_windows = 2],
      [DefaultDriftParams EXCEPT !.warmup_minutes = 0, !.window_minutes = 1,
                                 !.min_steady_windows = 1],
      DefaultDriftParams }

InitDrift ==
    /\ pc = "input"
    /\ \E kinds \in [1..DriftMinutes -> MinuteKinds] : points = DriftTimeseries(kinds)
    /\ drift_params \in DriftParamSets
    /\ drift = <<>>
    /\ params = DefaultParams /\ laps = <<>> /\ raw_candidates = <<>> /\ events = <<>>
    /\ NoLapInputs
    /\ max_hr = MAX_HR_DEFAULT /\ mile_segments = <<>>
    /\ typed_splits = <<>> /\ min_walk_segments = DefaultMinWalkSegments /\ galloway = <<>>
    /\ NoFitInputs
    /\ NoSyncInputs
    /\ NoLoop

\* A call detect_cardiac_drift(points, **drift_params)
DetectCardiacDrift ==
    /\ pc = "input"
    /\ pc' = "detect_cardiac_drift"
    /\ drift' = detect_cardiac_drift(points, drift_params)
    /\ UNCHANGED <<points, max_hr, mile_segments, drift_params, bonk_vars, lap_vars,
                   galloway_vars, fit_vars, sync_vars, loop>>

NextDrift == DetectCardiacDrift

SpecDrift == InitDrift /\ [][NextDrift]_vars

----------------------------------------------------------------------------
(* The loops of detect_cardiac_drift and build_mile_segments, one          *)
(* iteration a step.  `loop` holds the local variables of the call.        *)

\* detect_cardiac_drift from its steady filter on, given the windows built
DriftOfWindows(windows, prm) ==
    LET steady == SelectSeq(windows, LAMBDA w: IsSteady(w, prm.pace_stability_threshold))
    IN  IF Len(steady) < prm.min_steady_windows THEN None
        ELSE IF steady = <<>> THEN Raised("StatisticsError")
        ELSE DriftRegression(steady, prm)

\* The minutes the timeseries of the loops are made of: steady ones, with
\* and without samples that lack a heart rate or a pace
LoopMinuteKinds == { k \in MinuteKinds : k.hr \in {140, 149} }

\* The profile of the timeseries of the mile loop
LoopMileProfiles == { f \in MileProfiles : f.hr = "mixed" /\ f.paced }

\* The tunables of the drift detector: windows of one minute and of two,
\* with more steady windows asked for than the data holds; windows of no
\* length; and the defaults, under which no sample is past the warmup
LoopDriftParamSets ==
    { [DefaultDriftParams EXCEPT !.warmup_minutes = 0, !.window_minutes = 1,
                                 !.min_steady_windows = 6],
      [DefaultDriftParams EXCEPT !.warmup_minutes = 1, !.window_minutes = 2],
      [DefaultDriftParams EXCEPT !.warmup_minutes = 0, !.window_minutes = 0],
      DefaultDriftParams }

InitLoops ==
    /\ pc = "input"
    /\ \/ /\ \E kinds \in [1..DriftMinutes -> LoopMinuteKinds] : points = DriftTimeseries(kinds)
          /\ drift_params \in LoopDriftParamSets
          /\ max_hr = MAX_HR_DEFAULT
       \/ /\ \E n \in 0..NumMilePts, profile \in LoopMileProfiles :
                \E ds \in [1..n -> MileDistanceChoices] :
                    /\ Nondecreasing(ds)
                    /\ points = [i \in 1..n |-> MilePoint(i - 1, ds[i], profile)]
          /\ drift_params = DefaultDriftParams
          /\ max_hr = MAX_HR_DEFAULT
    /\ loop = <<>>
    /\ drift = <<>>
    /\ mile_segments = <<>>
    /\ params = DefaultParams /\ laps = <<>> /\ raw_candidates = <<>> /\ events = <<>>
    /\ NoLapInputs
    /\ typed_splits = <<>> /\ min_walk_segments = DefaultMinWalkSegments /\ galloway = <<>>
    /\ NoFitInputs
    /\ NoSyncInputs

\* detect_cardiac_drift(points, **drift_params) up to its while loop
StartDriftLoop ==
    /\ pc = "input"
    /\ LET post_warmup == SelectSeq(points, LAMBDA p: Eligible(p, drift_params.warmup_minutes * 60))
       IN  IF post_warmup = <<>>
           THEN /\ pc' = "detect_cardiac_drift"
                /\ drift' = None
                /\ loop' = loop
           ELSE /\ pc' = "drift_loop"
                /\ loop' = Some([ post_warmup |-> post_warmup,
                                  window_seconds |-> drift_params.window_minutes * 60,
                                  end_time |-> post_warmup[Len(post_warmup)].elapsed_seconds,
                                  windows |-> <<>>,
                                  t |-> post_warmup[1].elapsed_seconds ])
                /\ drift' = drift
    /\ UNCHANGED <<points, max_hr, mile_segments, drift_params, bonk_vars, lap_vars,
                   galloway_vars, fit_vars, sync_vars>>

\* One iteration of "while t + window_seconds <= end_time"
DriftLoopStep ==
    /\ pc = "drift_loop"
    /\ \E l \in {Val(loop)} :
          /\ l.t + l.window_seconds <= l.end_time
          /\ \E window \in {DriftWindow(l.post_warmup, l.t, l.window_seconds)} :
                loop' = Some([l EXCEPT !.windows = @ \o window,
                                       !.t = @ + l.window_seconds])
    /\ UNCHANGED <<pc, points, max_hr, mile_segments, drift_vars, bonk_vars, lap_vars,
                   galloway_vars, fit_vars, sync_vars>>

\* The loop left, and the rest of detect_cardiac_drift
DriftLoopExit ==
    /\ pc = "drift_loop"
    /\ \E l \in {Val(loop)} :
          /\ ~(l.t + l.window_seconds <= l.end_time)
          /\ \E result \in {DriftOfWindows(l.windows, drift_params)} : drift' = result
    /\ pc' = "detect_cardiac_drift"
    /\ UNCHANGED <<points, max_hr, mile_segments, drift_params, bonk_vars, lap_vars,
                   galloway_vars, fit_vars, sync_vars, loop>>

\* build_mile_segments(points, max_hr) up to its while loop
StartMileLoop ==
    /\ pc = "input"
    /\ LET pts == SortByElapsed(points)
           dist_pts == SelectSeq(pts, HasDistance)
       IN  IF points = <<>> \/ ~\E i \in 1..Len(points) : HasDistance(points[i])
           THEN /\ pc' = "build_mile_segments"
                /\ mile_segments' = <<>>
                /\ loop' = loop
           ELSE IF MaxDistance(dist_pts) * 1000 < METERS_PER_MILE_MM
           THEN /\ pc' = "build_mile_segments"
                /\ mile_segments' = <<>>
                /\ loop' = loop
           ELSE /\ pc' = "mile_loop"
                /\ loop' = Some([ pts |-> pts,
                                  total_distance |-> MaxDistance(dist_pts),
                                  segments |-> <<>>,
                                  mile_index |-> 0 ])
                /\ mile_segments' = mile_segments
    /\ UNCHANGED <<points, max_hr, drift_vars, bonk_vars, lap_vars,
                   galloway_vars, fit_vars, sync_vars>>

\* The mile band of the loop holds no data, no sample, or an incomplete mile
MileLoopBreaks(l) ==
    IF l.mile_index * METERS_PER_MILE_MM >= (l.total_distance + TOLERANCE_M) * 1000 THEN TRUE
    ELSE IF MilePts(l.pts, l.mile_index) = <<>> THEN TRUE
    ELSE CoverageBelow(MilePts(l.pts, l.mile_index), l.mile_index)

\* One iteration of "while True" that appends a RunSegment
MileLoopStep ==
    /\ pc = "mile_loop"
    /\ \E l \in {Val(loop)} :
          /\ ~MileLoopBreaks(l)
          /\ \E mile_pts \in {MilePts(l.pts, l.mile_index)} :
                \E segment \in {MkRunSegment(l.mile_index, mile_pts, max_hr)} :
                    loop' = Some([l EXCEPT !.segments = Append(@, segment),
                                           !.mile_index = @ + 1])
    /\ UNCHANGED <<pc, points, max_hr, mile_segments, drift_vars, bonk_vars, lap_vars,
                   galloway_vars, fit_vars, sync_vars>>

\* An iteration that breaks, and "return segments"
MileLoopExit ==
    /\ pc = "mile_loop"
    /\ MileLoopBreaks(Val(loop))
    /\ pc' = "build_mile_segments"
    /\ mile_segments' = Val(loop).segments
    /\ UNCHANGED <<points, max_hr, drift_vars, bonk_vars, lap_vars,
                   galloway_vars, fit_vars, sync_vars, loop>>

NextLoops ==
    \/ StartDriftLoop \/ DriftLoopStep \/ DriftLoopExit
    \/ StartMileLoop \/ MileLoopStep \/ MileLoopExit

SpecLoops == InitLoops /\ [][NextLoops]_vars

\* The interpreter goes on running the call
SpecLoopsFair == SpecLoops /\ WF_vars(NextLoops)

----------------------------------------------------------------------------
(* galloway.py: detect_galloway_segments.  A split dict is a record whose  *)
(* optional fields are None when the key is missing (or, for averageSpeed  *)
(* and averageHR, holds None).  Speeds are in tenths of a metre per        *)
(* second; averages are ratios in lowest terms.                            *)

\* str.upper() on the split types that occur
Upper(str) ==
    CASE str = "run" -> "RUN"
      [] str = "walk" -> "WALK"
      [] OTHER -> str

\* str(s.get("splitType", "")).upper()
SplitTypeOf(sp) == IF sp.splitType = None THEN "" ELSE Upper(Val(sp.splitType))

\* s.get(key, 0)
GetOrZero(o) == IF o = None THEN 0 ELSE Val(o)

\* _avg_pace falling back to the pace of the first lap that carries a speed
avg_paceFirstSpeed(sps) ==
    LET total_dist == SumSeq(SeqMap(LAMBDA sp: GetOrZero(sp.totalDistance), sps))
        with_speed == SelectSeq(sps, LAMBDA sp: sp.averageSpeed /= None /\ Val(sp.averageSpeed) /= 0)
        speeds == SeqMap(LAMBDA sp: Val(sp.averageSpeed), with_speed)
        total_time == SumSeq(SeqMap(LAMBDA sp: GetOrZero(sp.totalElapsedTime), sps))
    IN  IF total_dist <= 0
        THEN IF speeds = <<>> THEN None
             ELSE IF SumSeq(speeds) > 0
                  THEN Some(Rat(10000, speeds[1]))
                  ELSE None
        ELSE Some(Rat(total_time * 1000, total_dist))

\* _avg_pace: the average pace of a phase in s/km, or None
avg_pace(sps) ==
    LET total_dist == SumSeq(SeqMap(LAMBDA sp: GetOrZero(sp.totalDistance), sps))
        with_speed == SelectSeq(sps, LAMBDA sp: sp.averageSpeed /= None /\ Val(sp.averageSpeed) /= 0)
        speeds == SeqMap(LAMBDA sp: Val(sp.averageSpeed), with_speed)
        total_time == SumSeq(SeqMap(LAMBDA sp: GetOrZero(sp.totalElapsedTime), sps))
    IN  IF total_dist <= 0
        THEN IF speeds = <<>> THEN None
             ELSE IF SumSeq(speeds) > 0
                  THEN Some(Rat(10000 * Len(speeds), SumSeq(speeds)))   \* 1000.0 / avg_speed
                  ELSE None
        ELSE Some(Rat(total_time * 1000, total_dist))

\* _avg_hr: the mean of the laps' average heart rates, or None
avg_hr(sps) ==
    LET with_hr == SelectSeq(sps, LAMBDA sp: sp.averageHR /= None)
        hrs == SeqMap(LAMBDA sp: Val(sp.averageHR), with_hr)
    IN  IF hrs /= <<>> THEN Some(Rat(SumSeq(hrs), Len(hrs))) ELSE None

\* The GallowaySegments returned for no split at all
EmptyGalloway ==
    [ is_galloway |-> FALSE,
      run_segment_count |-> 0,
      walk_segment_count |-> 0,
      avg_run_pace_s_per_km |-> None,
      avg_walk_pace_s_per_km |-> None,
      avg_run_hr |-> None,
      avg_walk_hr |-> None ]

\* detect_galloway_segments with the walk laps having to outnumber the minimum
detect_galloway_segmentsMoreThan(sps, min_walk) ==
    LET run_splits == SelectSeq(sps, LAMBDA sp: SplitTypeOf(sp) = "RUN")
        walk_splits == SelectSeq(sps, LAMBDA sp: SplitTypeOf(sp) = "WALK")
    IN  IF sps = <<>> THEN EmptyGalloway
        ELSE [ is_galloway |-> Len(walk_splits) > min_walk,
               run_segment_count |-> Len(run_splits),
               walk_segment_count |-> Len(walk_splits),
               avg_run_pace_s_per_km |-> IF run_splits /= <<>> THEN avg_pace(run_splits) ELSE None,
               avg_walk_pace_s_per_km |-> IF walk_splits /= <<>> THEN avg_pace(walk_splits) ELSE None,
               avg_run_hr |-> IF run_splits /= <<>> THEN avg_hr(run_splits) ELSE None,
               avg_walk_hr |-> IF walk_splits /= <<>> THEN avg_hr(walk_splits) ELSE None ]

\* detect_galloway_segments: the GallowaySegments returned
detect_galloway_segments(sps, min_walk) ==
    LET run_splits == SelectSeq(sps, LAMBDA sp: SplitTypeOf(sp) = "RUN")
        walk_splits == SelectSeq(sps, LAMBDA sp: SplitTypeOf(sp) = "WALK")
    IN  IF sps = <<>> THEN EmptyGalloway
        ELSE [ is_galloway |-> Len(walk_splits) >= min_walk,
               run_segment_count |-> Len(run_splits),
               walk_segment_count |-> Len(walk_splits),
               avg_run_pace_s_per_km |-> IF run_splits /= <<>> THEN avg_pace(run_splits) ELSE None,
               avg_walk_pace_s_per_km |-> IF walk_splits /= <<>> THEN avg_pace(walk_splits) ELSE None,
               avg_run_hr |-> IF run_splits /= <<>> THEN avg_hr(run_splits) ELSE None,
               avg_walk_hr |-> IF walk_splits /= <<>> THEN avg_hr(walk_splits) ELSE None ]

----------------------------------------------------------------------------
(* The inputs of detect_galloway_segments *)

MaxTypedSplits == 4    \* split dicts per call

\* Run and walk laps with all their fields; two run laps with a speed only,
\* one faster than the other; a
\* lower-case run lap of no distance and no speed; a walk lap standing
\* still; a lower-case walk lap with a speed only; a lap of another type;
\* a lap without a type
TypedSplitChoices ==
    { [splitType |-> Some("RUN"), totalElapsedTime |-> Some(300), totalDistance |-> Some(1000),
       averageSpeed |-> Some(33), averageHR |-> Some(150)],
      [splitType |-> Some("RUN"), totalElapsedTime |-> None, totalDistance |-> None,
       averageSpeed |-> Some(30), averageHR |-> None],
      [splitType |-> Some("RUN"), totalElapsedTime |-> None, totalDistance |-> None,
       averageSpeed |-> Some(20), averageHR |-> None],
      [splitType |-> Some("run"), totalElapsedTime |-> Some(60), totalDistance |-> Some(0),
       averageSpeed |-> None, averageHR |-> Some(141)],
      [splitType |-> Some("WALK"), totalElapsedTime |-> Some(60), totalDistance |-> Some(100),
       averageSpeed |-> Some(16), averageHR |-> Some(120)],
      [splitType |-> Some("WALK"), totalElapsedTime |-> Some(30), totalDistance |-> Some(0),
       averageSpeed |-> Some(0), averageHR |-> None],
      [splitType |-> Some("walk"), totalElapsedTime |-> None, totalDistance |-> None,
       averageSpeed |-> Some(15), averageHR |-> Some(111)],
      [splitType |-> Some("WARMUP"), totalElapsedTime |-> Some(300), totalDistance |-> Some(800),
       averageSpeed |-> Some(26), averageHR |-> Some(130)],
      [splitType |-> None, totalElapsedTime |-> Some(10), totalDistance |-> Some(20),
       averageSpeed |-> Some(20), averageHR |-> Some(100)] }

MinWalkChoices == {DefaultMinWalkSegments, 2}

InitGalloway ==
    /\ pc = "input"
    /\ \E n \in 0..MaxTypedSplits : typed_splits \in [1..n -> TypedSplitChoices]
    /\ min_walk_segments \in MinWalkChoices
    /\ galloway = <<>>
    /\ points = <<>>
    /\ params = DefaultParams /\ laps = <<>> /\ raw_candidates = <<>> /\ events = <<>>
    /\ NoLapInputs
    /\ max_hr = MAX_HR_DEFAULT /\ mile_segments = <<>>
    /\ drift_params = DefaultDriftParams /\ drift = <<>>
    /\ NoFitInputs
    /\ NoSyncInputs
    /\ NoLoop

\* A call detect_galloway_segments(typed_splits, min_walk_segments)
DetectGallowaySegments ==
    /\ pc = "input"
    /\ pc' = "detect_galloway_segments"
    /\ galloway' = Some(detect_galloway_segments(typed_splits, min_walk_segments))
    /\ UNCHANGED <<points, max_hr, mile_segments, typed_splits, min_walk_segments,
                   bonk_vars, lap_vars, drift_vars, fit_vars, sync_vars, loop>>

NextGalloway == DetectGallowaySegments

SpecGalloway == InitGalloway /\ [][NextGalloway]_vars

----------------------------------------------------------------------------
(* fit_parser.py: parse_fit_file.  A 'record' message is a record of       *)
(* optional values.  Timestamps are in tenths of a second, speeds in       *)
(* tenths of a metre per second, altitudes in tenths of a metre.           *)

\* A result that is a value returned
Returned(v) == Some([returned |-> v])

\* Python's "a or b" on two optional numbers: a unless it is None or zero
PyOr(a, b) == IF a /= None /\ Val(a) /= 0 THEN a ELSE b

\* int() of a number of tenths: truncation towards zero
IntOfTenths(x) == IF x >= 0 THEN x \div 10 ELSE -((-x) \div 10)

\* raw * _SEMICIRCLE_TO_DEGREES, 180 / 2^31 being 45 / 2^29
SemicirclesToDegrees(raw) == IF raw = None THEN None ELSE Some(Rat(Val(raw) * 45, 536870912))

\* The dict appended for one timestamped record
MkDatapoint(values, first_timestamp) ==
    LET raw_speed == PyOr(values.enhanced_speed, values.speed)
        raw_alt == PyOr(values.enhanced_altitude, values.altitude)
    IN  [ elapsed_seconds |-> IntOfTenths(Val(values.timestamp) - first_timestamp),
          heart_rate |-> values.heart_rate,
          speed_ms |-> raw_speed,
          pace_seconds_per_km |-> IF raw_speed /= None /\ Val(raw_speed) > 0
                                  THEN Some(Rat(10000, Val(raw_speed)))   \* 1000.0 / speed_ms
                                  ELSE None,
          elevation_meters |-> raw_alt,
          cadence_spm |-> values.cadence,
          distance_meters |-> values.distance,
          lat |-> SemicirclesToDegrees(values.position_lat),
          lon |-> SemicirclesToDegrees(values.position_long),
          temperature_c |-> values.temperature ]

\* RecordLoop measuring each record from the record before it
RECURSIVE RecordLoopFromPrevious(_, _, _)
RecordLoopFromPrevious(msgs, i, first_timestamp) ==
    IF i > Len(msgs) THEN <<>>
    ELSE IF msgs[i].timestamp = None THEN RecordLoopFromPrevious(msgs, i + 1, first_timestamp)
    ELSE LET first == IF first_timestamp = None THEN msgs[i].timestamp ELSE first_timestamp
         IN  <<MkDatapoint(msgs[i], Val(first))>>
                \o RecordLoopFromPrevious(msgs, i + 1, msgs[i].timestamp)

\* The loop over the records from record i on; first_timestamp is None
\* until a record with a timestamp has been seen
RECURSIVE RecordLoop(_, _, _)
RecordLoop(msgs, i, first_timestamp) ==
    IF i > Len(msgs) THEN <<>>
    ELSE IF msgs[i].timestamp = None THEN RecordLoop(msgs, i + 1, first_timestamp)
    ELSE LET first == IF first_timestamp = None THEN msgs[i].timestamp ELSE first_timestamp
         IN  <<MkDatapoint(msgs[i], Val(first))>> \o RecordLoop(msgs, i + 1, first)

\* parse_fit_file: the list returned, or the FitParseError raised
parse_fit_file(file) ==
    IF file.status = "missing" THEN Raised("FitParseError: FIT file not found")
    ELSE IF file.status = "corrupt" THEN Raised("FitParseError: Failed to parse FIT file")
    ELSE IF file.messages = <<>> THEN Raised("FitParseError: No 'record' messages found in FIT file")
    ELSE Returned(RecordLoop(file.messages, 1, None))

----------------------------------------------------------------------------
(* The inputs of parse_fit_file *)

MaxRecords == 3    \* 'record' messages per file

\* None, or 10.0 s, 11.5 s and 13.0 s on the device's clock
Timestamps == {None, Some(100), Some(115), Some(130)}

\* The values of a record next to its timestamp: every field there; both
\* enhanced fields zero beside their legacy fields; the legacy fields only;
\* the enhanced fields only, and zero; no field at all; the legacy fields
\* zero beside their enhanced fields
RecordValues ==
    { [enhanced_speed |-> Some(25), speed |-> Some(24), enhanced_altitude |-> Some(1000),
       altitude |-> Some(990), heart_rate |-> Some(150), cadence |-> Some(85),
       distance |-> Some(100), position_lat |-> Some(1048576), position_long |-> Some(-2097152),
       temperature |-> Some(20)],
      [enhanced_speed |-> Some(0), speed |-> Some(30), enhanced_altitude |-> Some(0),
       altitude |-> Some(120), heart_rate |-> Some(90), cadence |-> None,
       distance |-> Some(100), position_lat |-> None, position_long |-> None,
       temperature |-> None],
      [enhanced_speed |-> None, speed |-> Some(30), enhanced_altitude |-> None,
       altitude |-> Some(120), heart_rate |-> None, cadence |-> None,
       distance |-> None, position_lat |-> None, position_long |-> None,
       temperature |-> None],
      [enhanced_speed |-> Some(0), speed |-> None, enhanced_altitude |-> Some(0),
       altitude |-> None, heart_rate |-> Some(151), cadence |-> Some(0),
       distance |-> Some(0), position_lat |-> Some(0), position_long |-> Some(0),
       temperature |-> Some(0)],
      [enhanced_speed |-> None, speed |-> None, enhanced_altitude |-> None,
       altitude |-> None, heart_rate |-> None, cadence |-> None,
       distance |-> None, position_lat |-> None, position_long |-> None,
       temperature |-> None],
      [enhanced_speed |-> Some(25), speed |-> Some(0), enhanced_altitude |-> Some(1000),
       altitude |-> Some(0), heart_rate |-> Some(152), cadence |-> Some(86),
       distance |-> Some(200), position_lat |-> None, position_long |-> None,
       temperature |-> None] }

MkRecord(timestamp, values) ==
    [ timestamp |-> timestamp,
      enhanced_speed |-> values.enhanced_speed, speed |-> values.speed,
      enhanced_altitude |-> values.enhanced_altitude, altitude |-> values.altitude,
      heart_rate |-> values.heart_rate, cadence |-> values.cadence,
      distance |-> values.distance, position_lat |-> values.position_lat,
      position_long |-> values.position_long, temperature |-> values.temperature ]

RecordChoices == { MkRecord(t, v) : t \in Timestamps, v \in RecordValues }

\* A file that is not there, one that does not decode, and the files that
\* decode to up to MaxRecords 'record' messages
FitFiles ==
    { [status |-> "missing", messages |-> <<>>], [status |-> "corrupt", messages |-> <<>>] }
    \cup { [status |-> "ok", messages |-> m] :
              m \in UNION { [1..n -> RecordChoices] : n \in 0..MaxRecords } }

InitFit ==
    /\ pc = "input"
    /\ records \in FitFiles
    /\ datapoints = <<>>
    /\ points = <<>>
    /\ params = DefaultParams /\ laps = <<>> /\ raw_candidates = <<>> /\ events = <<>>
    /\ NoLapInputs
    /\ max_hr = MAX_HR_DEFAULT /\ mile_segments = <<>>
    /\ drift_params = DefaultDriftParams /\ drift = <<>>
    /\ typed_splits = <<>> /\ min_walk_segments = DefaultMinWalkSegments /\ galloway = <<>>
    /\ NoSyncInputs
    /\ NoLoop

\* A call parse_fit_file(path)
ParseFitFile ==
    /\ pc = "input"
    /\ pc' = "parse_fit_file"
    /\ datapoints' = parse_fit_file(records)
    /\ UNCHANGED <<points, max_hr, mile_segments, records, bonk_vars, lap_vars,
                   drift_vars, galloway_vars, sync_vars, loop>>

NextFit == ParseFitFile

SpecFit == InitFit /\ [][NextFit]_vars

----------------------------------------------------------------------------
(* The analysis entry points on empty and insufficient inputs: a call of   *)
(* any one of them on a timeseries of at most MaxEntryPts samples that     *)
(* stays inside the first mile, with no lap or a few, and with no typed    *)
(* split or one.                                                           *)

MaxEntryPts == 2    \* samples per timeseries

\* No distance, half a mile, and just under 95% of a mile
EntryDistanceChoices == {None, Some(800), Some(1528)}

\* The tunables of the drift detector: the defaults, and no warmup with
\* one-minute windows of which one is enough
EntryDriftParamSets ==
    { DefaultDriftParams,
      [DefaultDriftParams EXCEPT !.warmup_minutes = 0, !.window_minutes = 1,
                                 !.min_steady_windows = 1] }

InitEntry ==
    /\ pc = "input"
    /\ \E n \in 0..MaxEntryPts, profile \in MileProfiles :
          \E ds \in [1..n -> EntryDistanceChoices] :
              /\ Nondecreasing(ds)
              /\ points = [i \in 1..n |-> MilePoint(i - 1, ds[i], profile)]
    /\ params = DefaultParams /\ laps = <<>> /\ raw_candidates = <<>> /\ events = <<>>
    /\ \E choice \in MileLapLists : splits = MkSplits(choice)
    /\ segments = <<>>
    /\ active = <<>>
    /\ max_hr = MAX_HR_DEFAULT /\ mile_segments = <<>>
    /\ drift_params \in EntryDriftParamSets /\ drift = <<>>
    /\ \E n \in 0..1 : typed_splits \in [1..n -> TypedSplitChoices]
    /\ min_walk_segments \in MinWalkChoices
    /\ galloway = <<>>
    /\ NoFitInputs
    /\ NoSyncInputs
    /\ NoLoop

NextEntry ==
    \/ DetectBonk
    \/ BuildMileSegments
    \/ BuildLapSegments
    \/ DetectCardiacDrift
    \/ DetectGallowaySegments

SpecEntry == InitEntry /\ [][NextEntry]_vars

----------------------------------------------------------------------------
(* sync_service.py: GarminSyncService.  A call of sync_activity runs up to *)
(* its next await of the Garmin client in one step; between two awaits     *)
(* other calls may run.  Each "with Session" block is one transaction.     *)
(* A child row carries the call whose fetch it was built from.             *)

\* The id SQLite gives a new row of a table: one past the largest in use
NewId(table) ==
    IF table = {} THEN 1
    ELSE (CHOOSE i \in { r.id : r \in table } : \A r \in table : r.id <= i) + 1

\* The ids of n rows added to a table in one transaction
NewIds(table, n) == LET first == NewId(table) IN first..(first + n - 1)

\* _create_sync_log: the table with a new SyncLog row, status "running"
create_sync_log(logs) ==
    logs \cup { [id |-> NewId(logs), status |-> "running",
                 activities_synced |-> 0, error_message |-> None] }

\* _finish_sync_log: the row of the call's log rewritten
finish_sync_log(logs, log, status, activities_synced, error_message) ==
    { IF l.id = log
      THEN [l EXCEPT !.status = status, !.activities_synced = activities_synced,
                     !.error_message = error_message]
      ELSE l : l \in logs }

\* The Activity rows with the given garmin_activity_id
ExistingActivity(activities, gid) == { a \in activities : a.garmin_activity_id = gid }

\* _upsert_activity's transaction: the existing row updated in place, or a
\* new row added
upsert_activity(activities, gid, c) ==
    IF ExistingActivity(activities, gid) /= {}
    THEN LET existing == CHOOSE a \in ExistingActivity(activities, gid) : TRUE
         IN  (activities \ {existing}) \cup { [existing EXCEPT !.synced_by = c] }
    ELSE activities \cup { [id |-> NewId(activities), garmin_activity_id |-> gid,
                            synced_by |-> c, workout_definition |-> None] }

\* The id of the row _upsert_activity returns
ActivityIdOf(activities, gid) == (CHOOSE a \in ExistingActivity(activities, gid) : TRUE).id

\* replace_children keeping the rows that are there
replace_childrenKeepingOld(rows, activity, c, n) ==
    LET ids == NewIds(rows, n)
    IN  rows \cup { [id |-> i, activity_id |-> activity, fetch |-> c,
                     index |-> i - NewId(rows)] : i \in ids }

\* The transaction of _upsert_datapoints and of _upsert_splits: the rows of
\* the activity deleted, and one row added for each of the n items fetched
replace_children(rows, activity, c, n) ==
    LET kept == { r \in rows : r.activity_id /= activity }
        ids == NewIds(kept, n)
    IN  kept \cup { [id |-> i, activity_id |-> activity, fetch |-> c,
                     index |-> i - NewId(kept)] : i \in ids }

----------------------------------------------------------------------------
(* The calls of sync_activity *)

MaxCalls == 2       \* calls of sync_activity
MaxFetched == 2     \* datapoints, and splits, in one fetch

GarminActivityIds == {"g1", "g2"}

\* What an awaited client call can do: return, raise an Exception with a
\* text, or raise CancelledError, which is not an Exception
ErrorTexts == {"Garmin API down"}
Outcomes == {"ok", "cancelled"} \cup ErrorTexts

\* The call left by an exception that "except Exception" caught: the log
\* row is finished with status "error" and the exception is raised again
Caught(c, text) ==
    /\ db' = [db EXCEPT !.sync_logs = finish_sync_log(@, calls[c].log, "error", 0, Some(text))]
    /\ calls' = [calls EXCEPT ![c].pc = "done", ![c].result = Raised(text)]

\* The call left by a CancelledError, which passes "except Exception"
Cancelled(c) ==
    /\ calls' = [calls EXCEPT ![c].pc = "done", ![c].result = Raised("CancelledError")]
    /\ UNCHANGED db

Failed(c, outcome) == IF outcome = "cancelled" THEN Cancelled(c) ELSE Caught(c, outcome)

analysis_vars == <<pc, points, params, laps, raw_candidates, events, splits, segments,
                   active, max_hr, mile_segments, drift_params, drift, typed_splits,
                   min_walk_segments, galloway, records, datapoints, loop>>

InitSync ==
    /\ pc = "input"
    /\ points = <<>>
    /\ params = DefaultParams /\ laps = <<>> /\ raw_candidates = <<>> /\ events = <<>>
    /\ NoLapInputs
    /\ max_hr = MAX_HR_DEFAULT /\ mile_segments = <<>>
    /\ drift_params = DefaultDriftParams /\ drift = <<>>
    /\ typed_splits = <<>> /\ min_walk_segments = DefaultMinWalkSegments /\ galloway = <<>>
    /\ NoFitInputs
    /\ NoSyncInputs
    /\ NoLoop

\* sync_activity(activity_id) called: the log row is created and the call
\* awaits the activity summary
SyncActivity ==
    /\ Len(calls) < MaxCalls
    /\ \E gid \in GarminActivityIds :
          calls' = Append(calls, [activity_id |-> gid, pc |-> "upsert_activity",
                                  log |-> NewId(db.sync_logs), activity |-> None,
                                  raw_points |-> None, raw_splits |-> None,
                                  result |-> None])
    /\ db' = [db EXCEPT !.sync_logs = create_sync_log(@)]
    /\ UNCHANGED analysis_vars

\* get_activity_summary has ended: the Activity row is upserted and the
\* call awaits the FIT datapoints
UpsertActivity ==
    /\ \E c \in DOMAIN calls, outcome \in Outcomes :
          /\ calls[c].pc = "upsert_activity"
          /\ IF outcome = "ok"
             THEN LET activities == upsert_activity(db.activities, calls[c].activity_id, c)
                  IN  /\ db' = [db EXCEPT !.activities = activities]
                      /\ calls' = [calls EXCEPT
                            ![c].pc = "upsert_datapoints",
                            ![c].activity = Some(ActivityIdOf(activities, calls[c].activity_id))]
             ELSE Failed(c, outcome)
    /\ UNCHANGED analysis_vars

\* get_fit_datapoints has ended: the datapoints are replaced and
\* _upsert_workout starts
UpsertDatapoints ==
    /\ \E c \in DOMAIN calls, outcome \in Outcomes, n \in 0..MaxFetched :
          /\ calls[c].pc = "upsert_datapoints"
          /\ IF outcome = "ok"
             THEN /\ db' = [db EXCEPT !.datapoints =
                               replace_children(@, Val(calls[c].activity), c, n)]
                  /\ calls' = [calls EXCEPT ![c].pc = "upsert_workout",
                                            ![c].raw_points = Some(n)]
             ELSE Failed(c, outcome)
    /\ UNCHANGED analysis_vars

\* _upsert_workout: no linked workout; or get_workout has ended, and the
\* definition is stored on the Activity row, or its Exception is swallowed;
\* then the call awaits the typed splits
UpsertWorkout ==
    /\ \E c \in DOMAIN calls, outcome \in {"none", "stored", "failed", "cancelled"} :
          /\ calls[c].pc = "upsert_workout"
          /\ CASE outcome = "stored" ->
                    /\ db' = [db EXCEPT !.activities =
                                 { IF a.id = Val(calls[c].activity)
                                   THEN [a EXCEPT !.workout_definition = Some(c)]
                                   ELSE a : a \in @ }]
                    /\ calls' = [calls EXCEPT ![c].pc = "upsert_splits"]
               [] outcome = "cancelled" -> Cancelled(c)
               [] OTHER ->
                    /\ calls' = [calls EXCEPT ![c].pc = "upsert_splits"]
                    /\ UNCHANGED db
    /\ UNCHANGED analysis_vars

\* get_activity_typed_splits has ended: the splits are replaced, the log
\* row is finished with status "success" and the Activity is returned
UpsertSplits ==
    /\ \E c \in DOMAIN calls, outcome \in Outcomes, n \in 0..MaxFetched :
          /\ calls[c].pc = "upsert_splits"
          /\ IF outcome = "ok"
             THEN /\ db' = [db EXCEPT
                        !.splits = replace_children(@, Val(calls[c].activity), c, n),
                        !.sync_logs = finish_sync_log(@, calls[c].log, "success", 1, None)]
                  /\ calls' = [calls EXCEPT ![c].pc = "done", ![c].raw_splits = Some(n),
                                            ![c].result = Returned(Val(calls[c].activity))]
             ELSE Failed(c, outcome)
    /\ UNCHANGED analysis_vars

NextSync ==
    \/ SyncActivity
    \/ UpsertActivity
    \/ UpsertDatapoints
    \/ UpsertWorkout
    \/ UpsertSplits

SpecSync == InitSync /\ [][NextSync]_vars

----------------------------------------------------------------------------
(* The segment-aware detector.  bonk.py as given holds no                  *)
(* detect_bonk_per_segment; it is modelled from its description: the       *)
(* timeseries is filtered down to the samples whose elapsed time falls     *)
(* inside an active lap segment, and detect_bonk runs on those alone.      *)

\* active_points with the end of a lap's window taken as inside it
active_pointsClosedEnd(pts, segs) ==
    SelectSeq(pts, LAMBDA p :
        \E k \in 1..Len(segs) :
            /\ is_active(segs[k])
            /\ segs[k].start_elapsed_s <= p.elapsed_seconds
            /\ p.elapsed_seconds <= segs[k].end_elapsed_s)

RECURSIVE InSomeActive(_, _, _)
InSomeActive(t, segs, k) ==
    IF k > Len(segs) THEN FALSE
    ELSE IF is_active(segs[k]) /\ segs[k].start_elapsed_s <= t /\ t < segs[k].end_elapsed_s
         THEN TRUE
         ELSE InSomeActive(t, segs, k + 1)

\* The samples that fall inside an active lap segment, in their order
active_points(pts, segs) ==
    SelectSeq(pts, LAMBDA p : InSomeActive(p.elapsed_seconds, segs, 1))

detect_bonk_per_segment(pts, segs, prm) == detect_bonk(active_points(pts, segs), prm)

\* The laps of an activity: an optional short lead lap, a main lap, an
\* optional short tail lap, each of any split type; or no lap at all.
\* Durations are in tenths of a second.
LeadTailDuration == {150}
MainDurations == {1050, 1125, 1650}

EdgeLaps == {<<>>} \cup { <<c>> : c \in [split_type : SplitTypes, distance_meters : {1000},
                                          duration_seconds : LeadTailDuration,
                                          wkt_step_type : {None}] }

MainLaps == { <<c>> : c \in [split_type : SplitTypes, distance_meters : {1000},
                              duration_seconds : MainDurations,
                              wkt_step_type : {None}] }

LapLists == {<<>>} \cup { lead \o main \o tail : lead \in EdgeLaps, main \in MainLaps, tail \in EdgeLaps }

\* The timeseries handed to the segment-aware detector: three phases at one
\* of three paces (each 50% above the one before), a rising heart rate, flat ground.
SegPaceChoices == {Some(400), Some(600), Some(900)}

RisingHr == [slope |-> 10, at |-> 0, amount |-> 0, from |-> 0]

InitSeg ==
    /\ pc = "input"
    /\ \E b1 \in 0..NumSamples, b2 \in 0..NumSamples, x \in SegPaceChoices,
          y \in SegPaceChoices, z \in SegPaceChoices :
            /\ b1 <= b2
            /\ points = Timeseries(b1, b2, x, y, z, RisingHr, "flat")
    /\ params = DefaultParams
    /\ \E choice \in LapLists : laps = build_lap_segments(MkSplits(choice), points, MAX_HR_DEFAULT)
    /\ raw_candidates = <<>>
    /\ events = <<>>
    /\ NoLapInputs
    /\ NoOtherInputs

\* A call detect_bonk_per_segment(points, laps)
DetectBonkPerSegment ==
    /\ pc = "input"
    /\ pc' = "detect_bonk_per_segment"
    /\ raw_candidates' = RawCandidates(active_points(points, laps), params)
    /\ events' = detect_bonk_per_segment(points, laps, params)
    /\ UNCHANGED <<points, params, laps, splits, segments, active, other_vars>>

NextSeg == DetectBonkPerSegment

SpecSeg == InitSeg /\ [][NextSeg]_vars

----------------------------------------------------------------------------
(* Claims about detect_bonk, checked under SpecBonk *)

Called == pc = "detect_bonk"

Onset(k) == events[k].elapsed_seconds_onset

\* The paces of the samples with a positive pace and lo <= elapsed < hi
PacesIn(lo, hi) ==
    SeqMap(PaceOf, SelectSeq(points, LAMBDA p:
        lo <= p.elapsed_seconds /\ p.elapsed_seconds < hi /\ HasPace(p)))

\* The heart rates of the samples with a heart rate and lo <= elapsed < hi
HeartRatesIn(lo, hi) ==
    SeqMap(HrOf, SelectSeq(points, LAMBDA p:
        lo <= p.elapsed_seconds /\ p.elapsed_seconds < hi /\ p.heart_rate /= None))

\* The three detection tests at time t, as the claim words them
PaceTestAt(t) ==
    LET pre == PacesIn(t - params.pre_window_seconds, t)
        post == PacesIn(t, t + params.post_window_seconds)
    IN  /\ Len(pre) >= 3
        /\ Len(post) >= 3
        /\ (median(post) - median(pre)) * 100 >= params.pace_drop_threshold * median(pre)

HrTestAt(t) ==
    LET pre == HeartRatesIn(t - 60, t)
        post == HeartRatesIn(t, t + 60)
    IN  /\ Len(pre) > 0
        /\ Len(post) > 0
        /\ SumSeq(post) * Len(pre) - SumSeq(pre) * Len(post)
             >= params.hr_spike_threshold * Len(pre) * Len(post)

\* the forward grade over [t, t + 120], first against last sample with data
ForwardGradeAt(t) == elevation_grade_around(points, t, 60)

FlatAt(t) ==
    Abs(ForwardGradeAt(t)[1]) * 100 < params.hill_grade_threshold * ForwardGradeAt(t)[2]

\* C4: every BonkEvent returned by detect_bonk has its onset at or after the
\* warmup cutoff min_elapsed_seconds, and a timeseries whose samples all lie
\* before the cutoff yields no event, whatever its paces and heart rates.
C4_OnsetAfterWarmup ==
    Called =>
        /\ \A k \in 1..Len(events) : Onset(k) >= params.min_elapsed_seconds
        /\ (\A i \in 1..Len(points) : points[i].elapsed_seconds < params.min_elapsed_seconds)
              => events = <<>>

\* An event is reported although an earlier sample, before the cutoff, passes
\* all three detection tests as well.
C4_Witness ==
    /\ Called
    /\ events /= <<>>
    /\ \E i \in 1..Len(points) :
          /\ points[i].elapsed_seconds < params.min_elapsed_seconds
          /\ points[i].elapsed_seconds % 15 = 0
          /\ PaceTestAt(points[i].elapsed_seconds)
          /\ HrTestAt(points[i].elapsed_seconds)
          /\ FlatAt(points[i].elapsed_seconds)

\* C5: every BonkEvent comes from a time t at which all three tests passed:
\* the relative pace drop is at least the pace-drop threshold, the mean heart
\* rate of the 60 s after t exceeds that of the 60 s before t by at least the
\* HR-spike threshold, and the absolute forward grade over [t, t+120] is below
\* the hill-grade threshold (so a collapse on a grade of 5% or more gives no event).
C5_AllTestsPassed ==
    Called =>
        \A k \in 1..Len(events) :
            PaceTestAt(Onset(k)) /\ HrTestAt(Onset(k)) /\ FlatAt(Onset(k))

\* An event is reported, and a later collapse that passes the pace and
\* heart-rate tests on a grade at or above the threshold is not.
C5_Witness ==
    /\ Called
    /\ events /= <<>>
    /\ \E i \in 1..Len(points) :
          LET t == points[i].elapsed_seconds
          IN  /\ t >= params.min_elapsed_seconds
              /\ t % 15 = 0
              /\ PaceTestAt(t)
              /\ HrTestAt(t)
              /\ ~FlatAt(t)
              /\ \A k \in 1..Len(events) : Onset(k) /= t

\* C6: for a timeseries ordered by elapsed time, detect_bonk returns one event
\* per merged cluster, in strictly increasing onset order, any two consecutive
\* events more than merge_window_seconds apart; each event stands at the time
\* of one raw candidate, and there is an event iff there is a raw candidate.
C6_ClustersApart ==
    Called =>
        /\ \A k \in 1..(Len(events) - 1) :
              /\ Onset(k) < Onset(k + 1)
              /\ Onset(k + 1) - Onset(k) > params.merge_window_seconds
        /\ \A k \in 1..Len(events) :
              \E j \in 1..Len(raw_candidates) : raw_candidates[j].t = Onset(k)
        /\ Len(events) <= Len(raw_candidates)
        /\ (events = <<>>) <=> (raw_candidates = <<>>)

\* Two clusters: more raw candidates than events, and more than one event.
C6_Witness ==
    /\ Called
    /\ Len(events) >= 2
    /\ Len(raw_candidates) > Len(events)

\* C7: recovered is true iff the window that starts post_window + recovery_window
\* seconds after the onset holds at least 3 samples with a positive pace whose
\* median is at most pre-bonk pace * (1 + recovery threshold); the recovery end
\* is absent when recovered is false and is the window's start when it is true.
C7_Recovery ==
    Called =>
        \A k \in 1..Len(events) :
            LET start == Onset(k) + params.post_window_seconds + params.recovery_window_seconds
                window == PacesIn(start, start + params.pre_window_seconds)
                within == /\ Len(window) >= 3
                          /\ median(window) * 100
                               <= events[k].pre_bonk_pace_s_per_km * (100 + params.recovery_threshold)
            IN  /\ events[k].recovered <=> within
                /\ ~events[k].recovered => events[k].elapsed_seconds_end = None
                /\ events[k].recovered => events[k].elapsed_seconds_end = Some(start)

\* An event whose pace came back: recovered, with the recovery end set.
C7_Witness ==
    /\ Called
    /\ \E k \in 1..Len(events) :
          /\ events[k].recovered
          /\ events[k].elapsed_seconds_end /= None

\* Raw candidate a has a larger pace-drop fraction than raw candidate b
DropExceeds(a, b) ==
    a.pace_drop_pct[1] * b.pace_drop_pct[2] > b.pace_drop_pct[1] * a.pace_drop_pct[2]

\* Of the raw candidates whose indices are in S, the one with the largest
\* pace drop, the earliest of them if several have it
LargestDropIn(raw, S) ==
    CHOOSE i \in S :
        /\ \A j \in S : ~DropExceeds(raw[j], raw[i])
        /\ \A j \in S : j < i => DropExceeds(raw[i], raw[j])

\* The clusters as sets of indices of raw candidates: a candidate is folded
\* into the open cluster when it is within the merge window of the
\* largest-drop candidate folded so far
RECURSIVE ClustersFrom(_, _, _, _)
ClustersFrom(raw, i, cluster, window) ==
    IF i > Len(raw) THEN <<cluster>>
    ELSE IF raw[i].t - raw[LargestDropIn(raw, cluster)].t <= window
         THEN ClustersFrom(raw, i + 1, cluster \cup {i}, window)
         ELSE <<cluster>> \o ClustersFrom(raw, i + 1, {i}, window)

Clusters(raw, window) == IF raw = <<>> THEN <<>> ELSE ClustersFrom(raw, 2, {1}, window)

\* C23: each merged cluster is represented by the raw candidate with the
\* largest pace-drop fraction of all the raw candidates folded into it; the
\* event's onset, pre and post pace, drop fraction and pre and peak heart
\* rate are those of that one candidate.
C23_LargestDropRepresents ==
    Called =>
        LET raw == raw_candidates
            cl == Clusters(raw, params.merge_window_seconds)
        IN  /\ Len(events) = Len(cl)
            /\ \A k \in 1..Len(cl) :
                  LET c == raw[LargestDropIn(raw, cl[k])]
                  IN  /\ events[k].elapsed_seconds_onset = c.t
                      /\ events[k].pre_bonk_pace_s_per_km = c.pre_pace
                      /\ events[k].bonk_pace_s_per_km = c.post_pace
                      /\ events[k].pace_drop_pct
                            = RoundRatio(1000 * c.pace_drop_pct[1], c.pace_drop_pct[2])
                      /\ events[k].pre_bonk_hr = RoundRatio(10 * c.pre_hr[1], c.pre_hr[2])
                      /\ events[k].peak_hr = RoundRatio(10 * c.peak_hr[1], c.peak_hr[2])

\* A cluster of two raw candidates or more whose event stands at a candidate
\* that is not the first of them, its drop being larger.
C23_Witness ==
    /\ Called
    /\ LET raw == raw_candidates
           cl == Clusters(raw, params.merge_window_seconds)
       IN  \E k \in 1..Len(cl) :
              /\ Cardinality(cl[k]) >= 2
              /\ \E i \in cl[k], j \in cl[k] :
                    /\ i < j
                    /\ DropExceeds(raw[j], raw[i])
                    /\ events[k].elapsed_seconds_onset = raw[j].t

\* The times of the grid of step 15 that starts at the warmup cutoff, as far
\* as the timeseries goes
GridFromCutoff ==
    { t \in points[1].elapsed_seconds..points[Len(points)].elapsed_seconds :
        t >= params.min_elapsed_seconds /\ (t - params.min_elapsed_seconds) % 15 = 0 }

\* The times detect_bonk evaluates against the windows
Evaluated ==
    LET times == CandidateTimes(points, params)
    IN  { times[i] : i \in 1..Len(times) }

\* C24: the candidate times detect_bonk examines are every 15th second from
\* the warmup cutoff on: each t = cutoff + 15 k inside the recorded span of
\* the timeseries is evaluated, and no other time.
C24_GridFromCutoff ==
    Called /\ points /= <<>> => Evaluated = GridFromCutoff

\* C29 as claimed: every raw candidate folded into a cluster lies within
\* merge_window_seconds of the onset of the event reported for the cluster.
C29_WithinWindowOfOnset ==
    Called =>
        LET raw == raw_candidates
            cl == Clusters(raw, params.merge_window_seconds)
        IN  /\ Len(events) = Len(cl)
            /\ \A k \in 1..Len(cl) : \A i \in cl[k] :
                  Abs(raw[i].t - Onset(k)) <= params.merge_window_seconds

\* C29: every raw candidate folded into a cluster at or after the onset of
\* the event reported for it lies within merge_window_seconds of that
\* onset; a candidate before the onset was within merge_window_seconds of
\* the representative of its time, and is at most one merge window for each
\* other candidate of the cluster away from the onset.
C29_WithinWindowOfRepresentative ==
    Called =>
        LET raw == raw_candidates
            cl == Clusters(raw, params.merge_window_seconds)
        IN  /\ Len(events) = Len(cl)
            /\ \A k \in 1..Len(cl) : \A i \in cl[k] :
                  /\ raw[i].t >= Onset(k)
                        => raw[i].t - Onset(k) <= params.merge_window_seconds
                  /\ raw[i].t < Onset(k)
                        => Onset(k) - raw[i].t
                              <= params.merge_window_seconds * (Cardinality(cl[k]) - 1)
                  /\ \A j \in cl[k] : j < i /\ (\A m \in cl[k] : m < i => m <= j)
                        => raw[i].t - raw[j].t <= params.merge_window_seconds

\* A cluster of three raw candidates or more whose event stands more than
\* one merge window after one of them.
C29_Witness ==
    /\ Called
    /\ LET raw == raw_candidates
           cl == Clusters(raw, params.merge_window_seconds)
       IN  \E k \in 1..Len(cl) :
              /\ Cardinality(cl[k]) >= 3
              /\ \E i \in cl[k] :
                    Onset(k) - raw[i].t > params.merge_window_seconds

----------------------------------------------------------------------------
(* Claims about LapSegment and build_lap_segments, checked under SpecLaps *)

Built == pc \in {"build_lap_segments", "is_active"}

\* C3: LapSegment.isActive() is true exactly when the lap's split type is run,
\* warmup or cooldown, and false for every other split type.
C3_ActiveTypes ==
    pc = "is_active" =>
        \A i \in 1..Len(segments) :
            active[i] <=> segments[i].split_type \in {"run_segment", "warmup_segment", "cooldown_segment"}

\* One activity with an active cooldown lap, a walk lap and a lap of another type.
C3_Witness ==
    /\ pc = "is_active"
    /\ \E i \in 1..Len(segments) : segments[i].split_type = "cooldown_segment" /\ active[i]
    /\ \E i \in 1..Len(segments) : segments[i].split_type = "walk_segment" /\ ~active[i]
    /\ \E i \in 1..Len(segments) : segments[i].split_type = "lap" /\ ~active[i]

\* C8: a lap carrying an explicit warmup or cooldown tag is labelled "Warmup" or
\* "Cooldown" respectively, whatever its position in the list and its distance:
\* the explicit tags win over the distance heuristics and the Run/Walk counters.
C8_ExplicitTags ==
    Built =>
        /\ Len(segments) = Len(splits)
        /\ \A i \in 1..Len(splits) :
              /\ splits[i].split_type = "warmup_segment" => segments[i].label = "Warmup"
              /\ splits[i].split_type = "cooldown_segment" => segments[i].label = "Cooldown"

\* A short lap tagged warmup that stands last, where the cooldown heuristic
\* looks, is labelled Warmup; a lap tagged cooldown stands first.
C8_Witness ==
    /\ Built
    /\ Len(splits) = 3
    /\ splits[1].split_type = "cooldown_segment"
    /\ segments[1].label = "Cooldown"
    /\ splits[3].split_type = "warmup_segment"
    /\ splits[3].distance_meters < 1000
    /\ segments[3].label = "Warmup"

\* The last lap is the heuristic warmup: the first lap, run-type and short
LastIsHeuristicWarmup ==
    /\ Len(splits) = 1
    /\ splits[1].split_type = "run_segment"
    /\ splits[1].distance_meters < 1000

\* C9: when no explicit tag applies and the lap is not the heuristic warmup, the
\* last lap of the list is labelled "Cooldown" whenever it is a run-type or
\* walk-type lap whose distance is below 1000 m, also when it is the only lap.
C9_LastLapCooldown ==
    (Built /\ splits /= <<>>) =>
        LET n == Len(splits)
        IN  ( /\ splits[n].split_type \in {"run_segment", "walk_segment"}
              /\ splits[n].distance_meters < 1000
              /\ ~LastIsHeuristicWarmup )
            => segments[n].label = "Cooldown"

\* C10: when no explicit tag applies, the first lap of the list is labelled
\* "Warmup" iff it is a run-type lap with distance below 1000 m; a first
\* run-type lap of 1000 m or more is labelled "Run 1".
C10_FirstLapWarmup ==
    (Built /\ splits /= <<>> /\ splits[1].split_type \notin {"warmup_segment", "cooldown_segment"}) =>
        /\ segments[1].label = "Warmup"
              <=> (splits[1].split_type = "run_segment" /\ splits[1].distance_meters < 1000)
        /\ (splits[1].split_type = "run_segment" /\ splits[1].distance_meters >= 1000)
              => segments[1].label = "Run 1"

\* A first run lap of exactly 1000 m is "Run 1" and the short run lap after it,
\* not being first, is no warmup.
C10_Witness ==
    /\ Built
    /\ Len(splits) = 3
    /\ splits[1].split_type = "run_segment"
    /\ splits[1].distance_meters = 1000
    /\ segments[1].label = "Run 1"
    /\ splits[2].split_type = "run_segment"
    /\ splits[2].distance_meters < 1000
    /\ segments[2].label = "Run 2"

\* The lap is labelled neither Warmup nor Cooldown
Counted(j) == segments[j].label \notin {"Warmup", "Cooldown"}

WalkTagged(j) == splits[j].split_type = "walk_segment"

RecoveryStep(j) ==
    splits[j].split_type = "run_segment" /\ splits[j].wkt_step_type = Some("recovery")

C12_RecoveryLabel ==
    Built =>
        \A i \in 1..Len(segments) :
            Counted(i) =>
                IF RecoveryStep(i)
                THEN segments[i].label =
                        Numbered("Recovery", Cardinality({j \in 1..i : Counted(j) /\ RecoveryStep(j)}))
                ELSE ~WalkTagged(i) =>
                        segments[i].label =
                            Numbered("Run", Cardinality({j \in 1..i :
                                Counted(j) /\ ~WalkTagged(j) /\ ~RecoveryStep(j)}))

----------------------------------------------------------------------------
(* Claims about the HR-zone histograms and the mile segments, checked     *)
(* under SpecMiles                                                         *)

\* The samples of the timeseries (by index) that carry a heart rate, within a set of samples
HrBearing(window) == { j \in window : points[j].heart_rate /= None }

\* h is the histogram of the samples in `window`
HistogramOf(h, window) ==
    LET bearing == HrBearing(window)
        InZone(z) == { j \in bearing : classify_hr_zone(Val(points[j].heart_rate), max_hr) = z }
    IN  /\ DOMAIN h = 1..5
        /\ \A z \in 1..5 : h[z][2] > 0
        /\ IF bearing /= {}
           THEN /\ \A z \in 1..5 :
                     h[z][1] * Cardinality(bearing) = Cardinality(InZone(z)) * h[z][2]
                /\ \A z \in 1..5 : h[z][2] = h[1][2]
                /\ h[1][1] + h[2][1] + h[3][1] + h[4][1] + h[5][1] = h[1][2]
           ELSE \A z \in 1..5 : h[z][1] = 0

\* The samples inside lap i's window, and those inside mile band i (0-based)
LapWindow(i) ==
    { j \in 1..Len(points) :
        /\ segments[i].start_elapsed_s <= points[j].elapsed_seconds
        /\ points[j].elapsed_seconds < segments[i].end_elapsed_s }

MileBand(i) ==
    { j \in 1..Len(points) :
        /\ points[j].distance_meters /= None
        /\ i * 1609344 <= Val(points[j].distance_meters) * 1000
        /\ Val(points[j].distance_meters) * 1000 < (i + 1) * 1609344 }

\* C13: every HR-zone histogram of a mile or lap segment has exactly the keys
\* 1..5; when the segment's window holds a sample with a heart rate, each
\* fraction is (HR-bearing samples classified into the zone) / (HR-bearing
\* samples) and the five sum to 1; when it holds none, also when no
\* timeseries is supplied, all five are 0.
C13_ZoneHistogram ==
    /\ pc = "build_lap_segments" =>
          \A i \in 1..Len(segments) : HistogramOf(segments[i].hr_zone_distribution, LapWindow(i))
    /\ pc = "build_mile_segments" =>
          \A k \in 1..Len(mile_segments) :
              HistogramOf(mile_segments[k].hr_zone_distribution, MileBand(k - 1))

\* A mile whose band holds a sample without a heart rate next to samples
\* with one, its histogram spread over more than one zone.
C13_Witness ==
    /\ pc = "build_mile_segments"
    /\ \E k \in 1..Len(mile_segments) :
          /\ HrBearing(MileBand(k - 1)) /= {}
          /\ HrBearing(MileBand(k - 1)) /= MileBand(k - 1)
          /\ \E z \in 1..5 : LET f == mile_segments[k].hr_zone_distribution[z]
                              IN  0 < f[1] /\ f[1] < f[2]

\* Mile band i holds a sample, and its largest distance covers 95% of the band
BinComplete(i) ==
    \E j \in MileBand(i) :
        (Val(points[j].distance_meters) * 1000 - i * 1609344) * 100 >= 95 * 1609344

\* The run covers a mile: some sample stands at 1609.344 m or beyond
CoversAMile ==
    \E j \in 1..Len(points) :
        points[j].distance_meters /= None /\ Val(points[j].distance_meters) * 1000 >= 1609344

\* C14: build_mile_segments accepts band i only if the largest distance seen
\* in it covers at least 95% of the band; it stops at the first band that is
\* empty or fails this test, so the result is "Mile 1" .. "Mile k" for a
\* prefix of consecutive bands, and no later band gives a segment.
C14_MilePrefix ==
    pc = "build_mile_segments" =>
        LET k == Len(mile_segments)
        IN  /\ \A i \in 1..k :
                  /\ mile_segments[i].label = Numbered("Mile", i)
                  /\ BinComplete(i - 1)
            /\ CoversAMile => ~BinComplete(k)
            /\ ~CoversAMile => k = 0

\* One segment only: the second band fails the test and the third, complete, is dropped.
C14_Witness ==
    /\ pc = "build_mile_segments"
    /\ Len(mile_segments) = 1
    /\ MileBand(1) /= {}
    /\ ~BinComplete(1)
    /\ BinComplete(2)

\* The samples inside the window of lap i that runs from its start for its
\* whole duration, the duration being in tenths of a second
FullLapWindow(i) ==
    { j \in 1..Len(points) :
        /\ splits[i].start_elapsed_seconds <= points[j].elapsed_seconds
        /\ points[j].elapsed_seconds * 10
              < splits[i].start_elapsed_seconds * 10 + splits[i].duration_seconds }

\* C25: each LapSegment built by build_lap_segments ends at its start plus
\* the lap's duration, and its HR-zone histogram is that of exactly the
\* samples t with start <= t < start + duration; so where laps abut every
\* sample of the span is counted in one lap and one only.
C25_LapWindow ==
    pc = "build_lap_segments" =>
        /\ Len(segments) = Len(splits)
        /\ \A i \in 1..Len(segments) :
              /\ segments[i].start_elapsed_s = splits[i].start_elapsed_seconds
              /\ segments[i].end_elapsed_s * 10
                    = splits[i].start_elapsed_seconds * 10 + splits[i].duration_seconds
              /\ HistogramOf(segments[i].hr_zone_distribution, FullLapWindow(i))

----------------------------------------------------------------------------
(* Claims about detect_cardiac_drift, checked under SpecDrift *)

DriftCalled == pc = "detect_cardiac_drift"

DriftDetected == drift /= None /\ "onset_elapsed_seconds" \in DOMAIN drift[1]

\* The samples past the warmup that carry a heart rate and a positive pace
EligibleSamples ==
    SelectSeq(points, LAMBDA p:
        /\ p.elapsed_seconds >= 60 * drift_params.warmup_minutes
        /\ p.heart_rate /= None
        /\ p.pace_seconds_per_km /= None
        /\ Val(p.pace_seconds_per_km) > 0)

WindowLength == 60 * drift_params.window_minutes

\* Of the eligible samples `elig`, those of the window that starts at t
WindowSamples(elig, t) ==
    SelectSeq(elig, LAMBDA p: t <= p.elapsed_seconds /\ p.elapsed_seconds < t + WindowLength)

\* The start times of the consecutive full windows, in order
WindowStarts(elig) ==
    LET first == elig[1].elapsed_seconds
        last == elig[Len(elig)].elapsed_seconds
    IN  IF elig = <<>> \/ last < first THEN <<>>
        ELSE [m \in 1..((last - first) \div WindowLength) |-> first + (m - 1) * WindowLength]

\* The window at t is steady: at least 3 samples, and the coefficient of
\* variation of their paces, sqrt(sum((p - mean)^2) / (k - 1)) / mean, below the
\* threshold; with S the sum of the k paces this is
\* sum((k*p - S)^2) / ((k - 1) * S^2) < threshold^2
SteadyAt(elig, t) ==
    LET w == WindowSamples(elig, t)
        k == Len(w)
        S == SumSeq(SeqMap(PaceOf, w))
        dev == SumSeq([i \in 1..k |-> (k * PaceOf(w[i]) - S) * (k * PaceOf(w[i]) - S)])
    IN  /\ k >= 3
        /\ RLess(Rat(dev, (k - 1) * S * S),
                 Rat(drift_params.pace_stability_threshold * drift_params.pace_stability_threshold, 10000))

SteadyStarts(elig) == SelectSeq(WindowStarts(elig), LAMBDA t: SteadyAt(elig, t))

MeanHrAt(elig, t) == LET w == WindowSamples(elig, t) IN Rat(SumSeq(SeqMap(HrOf, w)), Len(w))

\* The least-squares slope of y against the index 0..n-1, n >= 2:
\* (n * sum(x*y) - sum(x) * sum(y)) / (n * sum(x^2) - sum(x)^2)
LeastSquaresSlope(ys) ==
    LET n == Len(ys)
        sx == SumSeq([i \in 1..n |-> i - 1])
        sxx == SumSeq([i \in 1..n |-> (i - 1) * (i - 1)])
        sy == RSum(ys)
        sxy == RSum([i \in 1..n |-> RMul(<<i - 1, 1>>, ys[i])])
        top == RSub(RMul(<<n, 1>>, sxy), RMul(<<sx, 1>>, sy))
    IN  RMul(top, <<1, n * sxx - sx * sx>>)

\* The rise projected over the windows with mean heart rates ys meets the drift threshold
ProjectedRiseMeets(ys) ==
    LET n == Len(ys)
    IN  /\ n >= 2
        /\ ~RLess(RMul(LeastSquaresSlope(ys), <<n - 1, 1>>), <<drift_params.drift_threshold_bpm, 1>>)

CountsForDrift(p) ==
    /\ p.elapsed_seconds >= 60 * drift_params.warmup_minutes
    /\ p.heart_rate /= None
    /\ p.pace_seconds_per_km /= None
    /\ Val(p.pace_seconds_per_km) > 0

\* points with every sample that does not count given other values that
\* still do not count: a sample of the warmup gets a heart rate and a pace of
\* its own, a later one keeps what it lacks and has the rest changed
OthersAltered ==
    [ i \in 1..Len(points) |->
        LET p == points[i]
        IN  IF CountsForDrift(p) THEN p
            ELSE IF p.elapsed_seconds < 60 * drift_params.warmup_minutes
                 THEN [p EXCEPT !.heart_rate = Some(90 + i), !.pace_seconds_per_km = Some(200 + 50 * i)]
            ELSE IF p.heart_rate = None
                 THEN [p EXCEPT !.pace_seconds_per_km = Some(200 + 50 * i)]
            ELSE [p EXCEPT !.heart_rate = Some(90 + i)] ]

\* C30: the result of detect_cardiac_drift depends only on the samples at or
\* after the warmup cutoff that carry a heart rate and a positive pace: the
\* timeseries of those samples alone, and the timeseries with every other
\* sample altered, give the result of the call; a reported onset is at or
\* after the warmup cutoff and is the start of the first steady window.
C30_DependsOnEligibleOnly ==
    DriftCalled =>
        /\ detect_cardiac_drift(EligibleSamples, drift_params) = drift
        /\ detect_cardiac_drift(OthersAltered, drift_params) = drift
        /\ DriftDetected =>
              /\ Val(drift).onset_elapsed_seconds >= 60 * drift_params.warmup_minutes
              /\ SteadyStarts(EligibleSamples) /= <<>>
              /\ Val(drift).onset_elapsed_seconds = SteadyStarts(EligibleSamples)[1]

\* An event reported on a timeseries with a warmup whose samples, had they
\* counted, would have given another result, and with later samples that
\* lack a heart rate; the first window past the warmup is not steady
C30_Witness ==
    /\ DriftCalled
    /\ DriftDetected
    /\ drift_params.warmup_minutes > 0
    /\ \E i \in 1..Len(points) :
          /\ points[i].elapsed_seconds < 60 * drift_params.warmup_minutes
          /\ points[i].heart_rate /= None
    /\ \E i \in 1..Len(points) :
          /\ points[i].elapsed_seconds >= 60 * drift_params.warmup_minutes
          /\ points[i].heart_rate = None
    /\ OthersAltered /= points
    /\ detect_cardiac_drift(points, [drift_params EXCEPT !.warmup_minutes = 0]) /= drift
    /\ Val(drift).onset_elapsed_seconds > EligibleSamples[1].elapsed_seconds

----------------------------------------------------------------------------
(* Claims about the loops of the analysis calls, checked under            *)
(* SpecLoopsFair                                                           *)

LoopReturned == pc \in {"detect_cardiac_drift", "build_mile_segments"}

\* The calls that returned gave what the functions give
LoopsAsFunctions ==
    /\ pc = "detect_cardiac_drift" => drift = detect_cardiac_drift(points, drift_params)
    /\ pc = "build_mile_segments" => mile_segments = build_mile_segments(points, max_hr)

\* The samples of the mile band of RunSegment number k of the result
BandOfSegment(k) ==
    { i \in 1..Len(points) :
        /\ points[i].distance_meters /= None
        /\ (k - 1) * METERS_PER_MILE_MM <= Val(points[i].distance_meters) * 1000
        /\ Val(points[i].distance_meters) * 1000 < k * METERS_PER_MILE_MM }

\* The mile loop gave at most one segment per mile band that holds a sample
OnePerMileBand ==
    pc = "build_mile_segments" =>
        \A k \in 1..Len(mile_segments) :
            /\ mile_segments[k].label = Numbered("Mile", k)
            /\ BandOfSegment(k) /= {}

\* C26: for every finite timeseries and every non-negative setting of the
\* tunables the window-building loop of detect_cardiac_drift and the
\* mile-bin loop of build_mile_segments terminate: the call returns, that of
\* build_mile_segments with at most one segment per mile bin that holds a
\* sample.
C26_LoopsTerminate == <>LoopReturned /\ []OnePerMileBand

----------------------------------------------------------------------------
(* Claims about detect_galloway_segments, checked under SpecGalloway *)

GallowayCalled == pc = "detect_galloway_segments"

\* The laps tagged `tag`, whatever the case of the letters
TaggedLaps(tag) ==
    { i \in 1..Len(typed_splits) :
        typed_splits[i].splitType \in {Some(tag), Some(IF tag = "RUN" THEN "run" ELSE "walk")} }

\* C17: the detected flag is set iff the number of walk-tagged laps is at
\* least min_walk_segments, whatever the number of run laps and the order of
\* the laps; the run and walk counts are the numbers of laps tagged run and
\* walk; a phase with no lap has absent averages.
C17_GallowayFlag ==
    GallowayCalled =>
        LET g == Val(galloway)
            runs == Cardinality(TaggedLaps("RUN"))
            walks == Cardinality(TaggedLaps("WALK"))
        IN  /\ g.is_galloway <=> walks >= min_walk_segments
            /\ g.run_segment_count = runs
            /\ g.walk_segment_count = walks
            /\ runs = 0 => (g.avg_run_pace_s_per_km = None /\ g.avg_run_hr = None)
            /\ walks = 0 => (g.avg_walk_pace_s_per_km = None /\ g.avg_walk_hr = None)

\* Detected with exactly the minimum of walk laps and no run lap at all, the
\* walk laps not next to each other; the walk phase has its averages.
C17_Witness ==
    /\ GallowayCalled
    /\ Val(galloway).is_galloway
    /\ Cardinality(TaggedLaps("WALK")) = min_walk_segments
    /\ TaggedLaps("RUN") = {}
    /\ Len(typed_splits) > min_walk_segments
    /\ 1 \in TaggedLaps("WALK") /\ 2 \notin TaggedLaps("WALK")
    /\ Val(galloway).avg_run_pace_s_per_km = None
    /\ Val(galloway).avg_walk_pace_s_per_km /= None

RECURSIVE ProdSeq(_)
ProdSeq(s) == IF s = <<>> THEN 1 ELSE Head(s) * ProdSeq(Tail(s))

\* The laps of typed_splits tagged `tag`, in order
PhaseLaps(tag) ==
    SelectSeq(typed_splits,
              LAMBDA sp: sp.splitType \in {Some(tag), Some(IF tag = "RUN" THEN "run" ELSE "walk")})

\* The unweighted mean of the paces 1000/averageSpeed of the laps that carry
\* a speed, the speeds being in tenths of a metre per second
MeanOfLapPaces(sps) ==
    LET carrying == SelectSeq(sps, LAMBDA sp: sp.averageSpeed /= None /\ Val(sp.averageSpeed) > 0)
        speeds == [i \in 1..Len(carrying) |-> Val(carrying[i].averageSpeed)]
        all == ProdSeq(speeds)
    IN  IF speeds = <<>> THEN None
        ELSE Some(Rat(SumSeq([i \in 1..Len(speeds) |-> 10000 * (all \div speeds[i])]),
                      Len(speeds) * all))

\* The pace the phase of laps sps is said to have
PhasePace(sps) ==
    LET total_dist == SumSeq([i \in 1..Len(sps) |->
                                 IF sps[i].totalDistance = None THEN 0 ELSE Val(sps[i].totalDistance)])
        total_time == SumSeq([i \in 1..Len(sps) |->
                                 IF sps[i].totalElapsedTime = None THEN 0 ELSE Val(sps[i].totalElapsedTime)])
    IN  IF total_dist > 0 THEN Some(Rat(total_time * 1000, total_dist))
        ELSE MeanOfLapPaces(sps)

\* C27 as claimed: the average pace of a phase of detect_galloway_segments is total
\* elapsed time / total distance x 1000 when the laps of the phase have a
\* positive total distance; otherwise it is the unweighted mean of the paces
\* 1000/averageSpeed of the laps that carry a speed, and absent when no lap
\* carries one.
C27_PhasePace ==
    GallowayCalled =>
        /\ PhaseLaps("RUN") /= <<>> =>
              Val(galloway).avg_run_pace_s_per_km = PhasePace(PhaseLaps("RUN"))
        /\ PhaseLaps("WALK") /= <<>> =>
              Val(galloway).avg_walk_pace_s_per_km = PhasePace(PhaseLaps("WALK"))

\* The pace of the unweighted mean of the speeds of the laps that carry one
PaceOfMeanSpeed(sps) ==
    LET carrying == SelectSeq(sps, LAMBDA sp: sp.averageSpeed /= None /\ Val(sp.averageSpeed) > 0)
        speeds == [i \in 1..Len(carrying) |-> Val(carrying[i].averageSpeed)]
    IN  IF speeds = <<>> THEN None
        ELSE Some(Rat(10000 * Len(speeds), SumSeq(speeds)))

\* The pace a phase of laps sps has: weighted by distance, or from the mean speed
PhasePaceFromMeanSpeed(sps) ==
    LET total_dist == SumSeq([i \in 1..Len(sps) |->
                                 IF sps[i].totalDistance = None THEN 0 ELSE Val(sps[i].totalDistance)])
        total_time == SumSeq([i \in 1..Len(sps) |->
                                 IF sps[i].totalElapsedTime = None THEN 0 ELSE Val(sps[i].totalElapsedTime)])
    IN  IF total_dist > 0 THEN Some(Rat(total_time * 1000, total_dist))
        ELSE PaceOfMeanSpeed(sps)

\* C27: the average pace of a phase of detect_galloway_segments is total
\* elapsed time / total distance x 1000 when the laps of the phase have a
\* positive total distance; otherwise it is 1000 over the unweighted mean of
\* the averageSpeed of the laps that carry a speed, and absent when no lap
\* carries one.
C27_PhasePaceOfMeanSpeed ==
    GallowayCalled =>
        /\ PhaseLaps("RUN") /= <<>> =>
              Val(galloway).avg_run_pace_s_per_km = PhasePaceFromMeanSpeed(PhaseLaps("RUN"))
        /\ PhaseLaps("WALK") /= <<>> =>
              Val(galloway).avg_walk_pace_s_per_km = PhasePaceFromMeanSpeed(PhaseLaps("WALK"))

\* A run phase without distance whose laps have different speeds, next to a
\* walk phase weighted by distance
C27_Witness ==
    /\ GallowayCalled
    /\ \E i, j \in 1..Len(PhaseLaps("RUN")) :
          /\ PhaseLaps("RUN")[i].averageSpeed /= None
          /\ PhaseLaps("RUN")[j].averageSpeed /= None
          /\ PhaseLaps("RUN")[i].averageSpeed /= PhaseLaps("RUN")[j].averageSpeed
    /\ \A i \in 1..Len(PhaseLaps("RUN")) : PhaseLaps("RUN")[i].totalDistance \in {None, Some(0)}
    /\ Val(galloway).avg_run_pace_s_per_km /= None
    /\ \E i \in 1..Len(PhaseLaps("WALK")) :
          /\ PhaseLaps("WALK")[i].totalDistance /= None
          /\ Val(PhaseLaps("WALK")[i].totalDistance) > 0
    /\ Val(galloway).avg_walk_pace_s_per_km /= None

----------------------------------------------------------------------------
(* Claims about parse_fit_file, checked under SpecFit *)

FitCalled == pc = "parse_fit_file"

\* The file decoded, and parse_fit_file has acted on its records
Decoded == FitCalled /\ records.status = "ok"

\* The records that carry a timestamp, in record order
Timestamped == SelectSeq(records.messages, LAMBDA r : r.timestamp /= None)

\* The error of a stream without a usable record
NoUsableRecords == Raised("FitParseError: No 'record' messages found in FIT file")

\* C18: whenever the decoded stream yields no timestamped record, be it
\* empty or made of records without a timestamp, parse_fit_file raises its
\* "no usable records" error; it never returns an empty list.
C18_NoUsableRecordsError ==
    Decoded =>
        /\ Timestamped = <<>> => datapoints = NoUsableRecords
        /\ datapoints /= Returned(<<>>)

\* The samples returned, one for each timestamped record
Samples == Val(datapoints).returned

\* C19: for every record holding both the enhanced field and its legacy
\* counterpart, the sample's speed is enhanced_speed and its elevation is
\* enhanced_altitude, whatever their values, zero included; the legacy
\* field is taken only where the enhanced one is absent.
C19_EnhancedPreferred ==
    Decoded /\ Timestamped /= <<>> =>
        \A k \in 1..Len(Timestamped) :
            LET r == Timestamped[k]
            IN  /\ r.enhanced_speed /= None /\ r.speed /= None
                        => Samples[k].speed_ms = r.enhanced_speed
                /\ r.enhanced_altitude /= None /\ r.altitude /= None
                        => Samples[k].elevation_meters = r.enhanced_altitude
                /\ r.enhanced_speed = None => Samples[k].speed_ms = r.speed
                /\ r.enhanced_altitude = None => Samples[k].elevation_meters = r.altitude

\* e whole seconds is a duration of d tenths of a second, cut to the second
WholeSecondsOf(e, d) == Abs(e) * 10 <= Abs(d) /\ Abs(d) < Abs(e) * 10 + 10 /\ e * d >= 0

\* The timestamps never go back
NondecreasingTimestamps ==
    \A k \in 1..(Len(Timestamped) - 1) :
        Val(Timestamped[k].timestamp) <= Val(Timestamped[k + 1].timestamp)

\* C20: parse_fit_file gives one sample for each record that carries a
\* timestamp, in record order, and none for the others; a sample's elapsed
\* seconds are the whole seconds since the first timestamped record, so the
\* first sample is at 0 and, where the timestamps never go back, the elapsed
\* seconds are never negative and never go back.
C20_OnePerTimestampedRecord ==
    Decoded /\ records.messages /= <<>> =>
        /\ Len(Samples) = Len(Timestamped)
        /\ \A k \in 1..Len(Samples) :
              /\ Samples[k].heart_rate = Timestamped[k].heart_rate
              /\ Samples[k].distance_meters = Timestamped[k].distance
              /\ WholeSecondsOf(Samples[k].elapsed_seconds,
                                Val(Timestamped[k].timestamp) - Val(Timestamped[1].timestamp))
        /\ Samples /= <<>> => Samples[1].elapsed_seconds = 0
        /\ NondecreasingTimestamps =>
              /\ \A k \in 1..Len(Samples) : Samples[k].elapsed_seconds >= 0
              /\ \A k \in 1..(Len(Samples) - 1) :
                    Samples[k].elapsed_seconds <= Samples[k + 1].elapsed_seconds

\* Two records with a timestamp around one without: the clock reads 11.5 s
\* and 13.0 s, the samples are at 0 and 1 elapsed seconds, and they carry
\* the heart rates of their own records.
C20_Witness ==
    /\ Decoded
    /\ Len(records.messages) = MaxRecords
    /\ records.messages[2].timestamp = None
    /\ Len(Samples) = 2
    /\ Val(Timestamped[1].timestamp) = 115
    /\ Val(Timestamped[2].timestamp) = 130
    /\ Samples[1].elapsed_seconds = 0
    /\ Samples[2].elapsed_seconds = 1
    /\ Samples[1].heart_rate /= Samples[2].heart_rate

----------------------------------------------------------------------------
(* Claims about empty and insufficient inputs, checked under SpecEntry *)

\* The result is an exception raised, not a value
IsRaised(result) ==
    /\ result /= <<>>
    /\ Len(result) = 1
    /\ DOMAIN result[1] = {"raised"}

\* The largest distance of the timeseries is short of a mile, or there is none
ShortOfAMile ==
    \A i \in DOMAIN points :
        points[i].distance_meters /= None
            => Val(points[i].distance_meters) * 1000 < METERS_PER_MILE_MM

\* C16: every analysis entry point returns its empty or not-detected value
\* and raises nothing on an empty or insufficient input: detect_bonk([]) is
\* [], build_mile_segments([]) is [] and so is it short of a mile,
\* build_lap_segments([], ts) is [] for any ts, detect_cardiac_drift([]) is
\* no event and so is it with every sample inside the warmup, and
\* detect_galloway_segments([]) is not detected, with zero counts and every
\* average absent.
C16_EmptyInputs ==
    /\ pc = "detect_bonk" =>
          /\ ~IsRaised(events)
          /\ points = <<>> => events = <<>>
    /\ pc = "build_mile_segments" =>
          /\ ~IsRaised(mile_segments)
          /\ points = <<>> => mile_segments = <<>>
          /\ ShortOfAMile => mile_segments = <<>>
    /\ pc = "build_lap_segments" =>
          /\ ~IsRaised(segments)
          /\ splits = <<>> => segments = <<>>
    /\ pc = "detect_cardiac_drift" =>
          /\ ~IsRaised(drift)
          /\ points = <<>> => drift = None
          /\ drift_params = DefaultDriftParams => drift = None
    /\ pc = "detect_galloway_segments" =>
          /\ ~IsRaised(galloway)
          /\ typed_splits = <<>> =>
                /\ ~Val(galloway).is_galloway
                /\ Val(galloway).run_segment_count = 0
                /\ Val(galloway).walk_segment_count = 0
                /\ Val(galloway).avg_run_pace_s_per_km = None
                /\ Val(galloway).avg_walk_pace_s_per_km = None
                /\ Val(galloway).avg_run_hr = None
                /\ Val(galloway).avg_walk_hr = None

\* build_mile_segments called on the empty timeseries, with laps and a typed
\* split at hand, has returned the empty list.
C16_Witness ==
    /\ pc = "build_mile_segments"
    /\ points = <<>>
    /\ splits /= <<>>
    /\ typed_splits /= <<>>
    /\ mile_segments = <<>>

----------------------------------------------------------------------------
(* Claims about GarminSyncService, checked under SpecSync *)

\* The child rows of a table attached to an Activity row
ChildrenOf(rows, activity) == { r \in rows : r.activity_id = activity }

\* The calls that have got their Activity row for a Garmin activity
SyncsOf(gid) ==
    { k \in DOMAIN calls : calls[k].activity_id = gid /\ calls[k].activity /= None }

\* One Activity row for each Garmin activity synced, the row every call got
OneActivityRow ==
    \A gid \in GarminActivityIds :
        /\ Cardinality(ExistingActivity(db.activities, gid)) <= 1
        /\ \A k \in SyncsOf(gid) :
              /\ ExistingActivity(db.activities, gid) /= {}
              /\ Val(calls[k].activity) = ActivityIdOf(db.activities, gid)

\* Call k stores the datapoints it fetched in this step
StoresDatapoints(k) ==
    /\ k \in DOMAIN calls
    /\ calls[k].pc = "upsert_datapoints"
    /\ calls'[k].pc = "upsert_workout"

\* Call k stores the splits it fetched in this step
StoresSplits(k) ==
    /\ k \in DOMAIN calls
    /\ calls[k].pc = "upsert_splits"
    /\ calls'[k].result /= None
    /\ ~IsRaised(calls'[k].result)

\* The rows are those of one fetch of call k, n of them, each item once
RowsOfFetch(rows, k, n) ==
    /\ Cardinality(rows) = n
    /\ \A r \in rows : r.fetch = k
    /\ { r.index : r \in rows } = 0..(n - 1)

\* C21: however often an activity is synced there is one Activity row for
\* its garmin_activity_id, the row the first sync made, and the datapoint
\* and split rows attached to it are those of the latest fetch, as many as
\* it fetched: a fetch that is stored replaces what was there, and nothing
\* else changes the rows.
C21_SyncIdempotent ==
    [][ /\ OneActivityRow'
        /\ \A a \in { r.id : r \in db.activities } :
              /\ \A k \in 1..MaxCalls :
                    StoresDatapoints(k) /\ calls[k].activity = Some(a)
                        => RowsOfFetch(ChildrenOf(db'.datapoints, a), k, Val(calls'[k].raw_points))
              /\ \A k \in 1..MaxCalls :
                    StoresSplits(k) /\ calls[k].activity = Some(a)
                        => RowsOfFetch(ChildrenOf(db'.splits, a), k, Val(calls'[k].raw_splits))
              /\ (\A k \in 1..MaxCalls : ~(StoresDatapoints(k) /\ calls[k].activity = Some(a)))
                        => ChildrenOf(db'.datapoints, a) = ChildrenOf(db.datapoints, a)
              /\ (\A k \in 1..MaxCalls : ~(StoresSplits(k) /\ calls[k].activity = Some(a)))
                        => ChildrenOf(db'.splits, a) = ChildrenOf(db.splits, a)
      ]_vars

\* Two syncs of one activity have returned, the second with fewer datapoints
\* and fewer splits than the first: one Activity row, and the rows of the
\* second fetch only.
C21_Witness ==
    /\ Len(calls) = 2
    /\ calls[1].activity_id = calls[2].activity_id
    /\ \A k \in 1..2 : calls[k].pc = "done" /\ ~IsRaised(calls[k].result)
    /\ calls[1].raw_points = Some(2) /\ calls[2].raw_points = Some(1)
    /\ calls[1].raw_splits = Some(2) /\ calls[2].raw_splits = Some(1)
    /\ Cardinality(db.activities) = 1
    /\ calls[1].result = calls[2].result
    /\ Cardinality(db.datapoints) = 1 /\ \A r \in db.datapoints : r.fetch = 2
    /\ Cardinality(db.splits) = 1 /\ \A r \in db.splits : r.fetch = 2

\* The SyncLog row of call k
LogOf(k) == CHOOSE l \in db.sync_logs : l.id = calls[k].log

\* C22: every call of sync_activity creates one SyncLog row of its own,
\* "running" while the call runs; when the call has returned the row is
\* "success" with activities_synced = 1, and when a step has raised the row
\* is "error" with the exception's text and the exception is raised again;
\* no row of a call that has ended is still "running".
C22_SyncLogFinished ==
    /\ Cardinality(db.sync_logs) = Len(calls)
    /\ \A k \in DOMAIN calls :
          /\ \E l \in db.sync_logs : l.id = calls[k].log
          /\ \A j \in DOMAIN calls : j /= k => calls[j].log /= calls[k].log
          /\ calls[k].pc /= "done" => LogOf(k).status = "running"
          /\ calls[k].pc = "done" =>
                /\ LogOf(k).status /= "running"
                /\ IF IsRaised(calls[k].result)
                   THEN /\ LogOf(k).status = "error"
                        /\ LogOf(k).error_message = Some(Val(calls[k].result).raised)
                   ELSE /\ LogOf(k).status = "success"
                        /\ LogOf(k).activities_synced = 1

\* The child rows, of either table, attached to the Activity row of call k
ChildRowsOf(k) ==
    ChildrenOf(db.datapoints, Val(calls[k].activity))
        \cup ChildrenOf(db.splits, Val(calls[k].activity))

\* C28: once a call of sync_activity has ended, returned or raised, no child
\* row written by an earlier sync is left next to a row written by this
\* one.
C28_NoStaleChildren ==
    \A k \in DOMAIN calls :
        calls[k].pc = "done" /\ calls[k].activity /= None =>
            \A r1 \in ChildRowsOf(k), r2 \in ChildRowsOf(k) :
                ~(r1.fetch = k /\ r2.fetch < k)

----------------------------------------------------------------------------
(* Claims about the segment-aware detector, checked under SpecSeg *)

SegCalled == pc = "detect_bonk_per_segment"

InLap(t, lap) == lap.start_elapsed_s <= t /\ t < lap.end_elapsed_s

\* The sub-sequence of the samples inside the window of some active lap
ActiveSubSequence ==
    LET inside == { i \in 1..Len(points) :
                      \E k \in 1..Len(laps) :
                          is_active(laps[k]) /\ InLap(points[i].elapsed_seconds, laps[k]) }
        RECURSIVE Pick(_)
        Pick(i) == IF i > Len(points) THEN <<>>
                   ELSE (IF i \in inside THEN <<points[i]>> ELSE <<>>) \o Pick(i + 1)
    IN  Pick(1)

RestTypes == {"walk_segment", "lap"}

====
